---- MODULE Spec2Model ----
(***************************************************************************)
(* A model of dope (src/src/dope.ts, src/src/dope-effects.ts): the action *)
(* factories and toAction, the render                                      *)
(* loop, the contents (text, array, HTML template instance), the keyed     *)
(* list reconciliation of ArrayContent.patch, and the DOM operations they  *)
(* perform on the host tree.                                               *)
(*                                                                         *)
(* The program is single threaded and synchronous: one call of             *)
(* target(e).render(value) runs to completion.  It is one action of the    *)
(* model; the calls it makes are operators that take the heap and return   *)
(* the heap they leave.                                                    *)
(***************************************************************************)
EXTENDS Integers, Sequences, FiniteSets, TLC

VARIABLES
    heap,   \* the DOM tree and the objects of the program (see EmptyHeap)
    prev,   \* the heap as it was when the last call was entered
    calls   \* the calls made so far, each [op, v], the last one last

vars == <<heap, prev, calls>>

(***************************************************************************)
(* Sequences.                                                              *)
(***************************************************************************)
Range(s) == {s[i] : i \in DOMAIN s}

Without(s, x) == SelectSeq(s, LAMBDA y : y # x)

IndexOf(s, x) == CHOOSE i \in DOMAIN s : s[i] = x

\* s with the sequence xs spliced in before ref (ref = 0: at the end)
InsertSeq(s, xs, ref) ==
    IF ref = 0 THEN s \o xs
    ELSE LET i == IndexOf(s, ref)
         IN SubSeq(s, 1, i - 1) \o xs \o SubSeq(s, i, Len(s))

\* the function f on 1..n as the tuple of its values
Tuple(f) == SubSeq(f, 1, Len(f))

NoDup(s) == \A i, j \in DOMAIN s : s[i] = s[j] => i = j

(***************************************************************************)
(* The heap.  Nodes, contents, places and the closures of a patch pass     *)
(* (frames) are numbered from 1 in the order they are created; 0 is        *)
(* null/undefined.  Node 1 is the element handed to target(); node 2 is an *)
(* element of another document, handed to target() too.  A document is     *)
(* numbered as its element.                                                *)
(***************************************************************************)
Root == 1
Other == 2

\* what an operation leaves in  ret  when it threw
Thrown == -1

Placement == {"element", "attribute", "tag"}

\* actionFactories as the module is loaded
BuiltinFactories ==
    [element   |-> <<"makeTextAction", "makeArrayAction">>,
     attribute |-> <<"makeStringAction", "makeJoinAction">>,
     tag       |-> <<"makePropertiesAction">>]

\* a value of the program that is no object of the heap: [t, a, xs]
NoValue == [t |-> "undefined", a |-> "undefined", xs |-> <<>>]

EmptyHeap ==
    [ parent   |-> <<0, 0>>,       \* node -> parentNode
      kids     |-> << <<>>, <<>> >>,  \* node -> childNodes
      ntype    |-> <<"element", "element">>,  \* node -> element, text, comment, fragment
      nval     |-> <<"", "">>,     \* node -> nodeValue (text), wired attribute (element)
      contents |-> <<>>,           \* the Content objects
      places   |-> <<>>,           \* the CurrentPlace objects
      frames   |-> <<>>,           \* the local variables of each ArrayContent.patch call
      factories |-> BuiltinFactories,  \* actionFactories
      cur      |-> 0,              \* _place
      act      |-> 0,              \* _action: the handles are numbered as they are made
      nact     |-> 0,              \* the action handles made so far
      handles  |-> <<>>,           \* handle -> the place p and the action a of its repeat
      hooks    |-> <<>>,           \* the handles a caller kept, each with the count of its hook
      mount    |-> << [content |-> 0, place |-> 0],   \* element -> e[contentKey], e[placeKey]
                      [content |-> 0, place |-> 0] >>,
      templates |-> <<>>,          \* the Templates composeTemplate made: [strings, doc]
      cache    |-> <<>>,           \* templateCache: <<document, templateStrings>> -> Template
      memo     |-> <<>>,           \* the variable template of each action kept by a caller
      tpl      |-> 0,              \* the Template the template action evaluating has in hand
      evals    |-> <<>>,           \* (history) each evaluation of a template action so far
      err      |-> "",             \* the exception in flight, "" when none
      ret      |-> 0,              \* the Content the last operation returned (0: none)
      val      |-> NoValue,        \* the value an action returned that is no Content
      trace    |-> <<>>,           \* (history) the steps of the render loop in the current call
      log      |-> <<>>,           \* (history) the DOM mutations of the current call
      writes   |-> <<>>,           \* (history) the setAttribute calls of the current call
      passes   |-> <<>>,           \* (history) the ArrayContent.patch passes it completed
      updates  |-> <<>>,           \* (history) the calls of the update callback of a slot
      acts     |-> <<>> ]          \* (history) the template actions it evaluated

(***************************************************************************)
(* The DOM operations the program uses.                                    *)
(***************************************************************************)
\* document.createTextNode / createComment / createElement / createDocumentFragment:
\* the new node is Len(h.parent) of the result
CreateNode(h, type, val) ==
    [h EXCEPT !.parent = Append(@, 0), !.kids = Append(@, <<>>),
              !.ntype = Append(@, type), !.nval = Append(@, val)]

\* node.nextSibling
NextSibling(h, n) ==
    IF h.parent[n] = 0 THEN 0
    ELSE LET ks == h.kids[h.parent[n]]
             i  == IndexOf(ks, n)
         IN IF i = Len(ks) THEN 0 ELSE ks[i + 1]

\* the removal of n from its parent, when it has one
Detach(h, n) ==
    IF h.parent[n] = 0 THEN h
    ELSE [h EXCEPT !.kids[h.parent[n]] = Without(@, n),
                   !.parent[n] = 0,
                   !.log = Append(@, [op |-> "remove", n |-> n, p |-> h.parent[n]])]

\* parent.append(...nodes): each node leaves its parent and becomes the last child
RECURSIVE AppendNodes(_, _, _)
AppendNodes(h, par, ns) ==
    IF ns = <<>> THEN h
    ELSE LET n  == Head(ns)
             h1 == Detach(h, n)
             h2 == [h1 EXCEPT !.kids[par] = Append(@, n), !.parent[n] = par,
                              !.log = Append(@, [op |-> "insert", n |-> n, p |-> par])]
         IN AppendNodes(h2, par, Tail(ns))

\* InsertBefore with the children of the fragment put last whatever ref is
InsertBeforeLast(h, par, frag, ref) ==
    LET ns == h.kids[frag]
    IN [h EXCEPT !.kids[frag] = <<>>,
                 !.kids[par] = @ \o ns,
                 !.parent = Tuple([n \in DOMAIN @ |-> IF n \in Range(ns) THEN par ELSE @[n]]),
                 !.log = @ \o Tuple([i \in DOMAIN ns |->
                                 [op |-> "insert", n |-> ns[i], p |-> par]])]

\* parent.insertBefore(fragment, ref): the children of the fragment move in
\* before ref; a ref that is not a child of parent is a NotFoundError
InsertBefore(h, par, frag, ref) ==
    IF ref # 0 /\ h.parent[ref] # par
    THEN [h EXCEPT !.err = "NotFoundError"]
    ELSE LET ns == h.kids[frag]
         IN [h EXCEPT !.kids[frag] = <<>>,
                      !.kids[par] = InsertSeq(@, ns, ref),
                      !.parent = Tuple([n \in DOMAIN @ |->
                                         IF n \in Range(ns) THEN par ELSE @[n]]),
                      !.log = @ \o Tuple([i \in DOMAIN ns |->
                                      [op |-> "insert", n |-> ns[i], p |-> par]])]

\* the nodes under n, n included, in document order
RECURSIVE Subtree(_, _)
RECURSIVE SubtreeAll(_, _)
Subtree(h, n) == <<n>> \o SubtreeAll(h, h.kids[n])
SubtreeAll(h, ns) ==
    IF ns = <<>> THEN <<>> ELSE Subtree(h, Head(ns)) \o SubtreeAll(h, Tail(ns))

\* n is in the tree of the target element
RECURSIVE Attached(_, _)
Attached(h, n) ==
    IF n = Root THEN TRUE
    ELSE IF h.parent[n] = 0 THEN FALSE
    ELSE Attached(h, h.parent[n])

(***************************************************************************)
(* Values handed to render.  A value is [t, a, xs]:                        *)
(*   "str"    a string a                                                   *)
(*   "arr"    an array of the values xs                                    *)
(*   "html"   html`...`: the action makeHTMLAction returns for the         *)
(*            template strings object a and the values xs, made by the     *)
(*            call site for the render call                                *)
(*   "held"   the same, made once and kept by the caller: every render of  *)
(*            it is a call of the one function                             *)
(*   "keyed"  keyed(a, xs[1])                                              *)
(*   "fn"     a function () => xs[1]                                       *)
(*   "null", "undefined", "num" (the number written a), "bool", "sym" (a   *)
(*            Symbol), "obj" (a plain object): values that are no function *)
(*   "throw"  a function () => { throw 'boom' }                            *)
(*   "keep"   a function that keeps action() in a list of its own, hands   *)
(*            its onUndo a hook that counts the times it is called, and    *)
(*            returns xs[1]                                                *)
(*   "nest"   a function that reads place() and action(), calls            *)
(*            render(a, xs[1], prior, update) with callbacks of its own,   *)
(*            reads place() and action() again and returns xs[2]           *)
(*   "try"    the same with the call of render in try { } catch { }        *)
(*   "text", "array", "string", "properties"  the functions the built-in   *)
(*            factories return: for the string a, the actions xs, the      *)
(*            string a, the object xs[1]                                   *)
(***************************************************************************)
Str(s)      == [t |-> "str",   a |-> s,  xs |-> <<>>]
Arr(vs)     == [t |-> "arr",   a |-> "", xs |-> vs]
Html(t, vs) == [t |-> "html",  a |-> t,  xs |-> vs]
Held(t, vs) == [t |-> "held",  a |-> t,  xs |-> vs]
Keyed(k, v) == [t |-> "keyed", a |-> k,  xs |-> <<v>>]
Fn(v)       == [t |-> "fn",    a |-> "", xs |-> <<v>>]
Null        == [t |-> "null",  a |-> "null", xs |-> <<>>]
Undefined   == [t |-> "undefined", a |-> "undefined", xs |-> <<>>]
Num(lit)    == [t |-> "num",   a |-> lit, xs |-> <<>>]
Bool(b)     == [t |-> "bool",  a |-> b,  xs |-> <<>>]
Sym         == [t |-> "sym",   a |-> "Symbol()", xs |-> <<>>]
Obj         == [t |-> "obj",   a |-> "{}", xs |-> <<>>]
Throw       == [t |-> "throw", a |-> "boom", xs |-> <<>>]
Keep(v)     == [t |-> "keep",  a |-> "", xs |-> <<v>>]
Nest(kind, v, result)    == [t |-> "nest", a |-> kind, xs |-> <<v, result>>]
TryNest(kind, v, result) == [t |-> "try",  a |-> kind, xs |-> <<v, result>>]

\* value instanceof Function
Callable(v) ==
    v.t \in {"html", "held", "keyed", "fn", "throw", "nest", "try", "keep",
             "text", "array", "string", "properties"}

\* value == null
Nullish(v) == v.t \in {"null", "undefined"}

\* Number.prototype.toString of the number written lit
NumberString(lit) ==
    CASE lit = "1.50" -> "1.5"
      [] lit = "0x10" -> "16"
      [] OTHER        -> lit

(***************************************************************************)
(* Keys.  A key is written as its JavaScript literal: "0" is the number 0, *)
(* "'0'" the string '0', "undefined" the value of key() in a place where   *)
(* keyed was not evaluated.                                                *)
(***************************************************************************)
NoKey == "undefined"

\* key() != null
HasKey(k) == k \notin {"undefined", "null"}

\* the string the concatenation 'key-' + key() makes of a key
KeyString(k) ==
    CASE k = "'undefined'" -> "undefined"
      [] k = "'0'"         -> "0"
      [] k = "'1'"         -> "1"
      [] OTHER             -> k

(***************************************************************************)
(* Contents.  One record shape for every class:                            *)
(*   k      "empty" (ElementContent), "text", "array", "html"              *)
(*   n1     the text node, the array's #marker, the #beginMarker           *)
(*   n2     the #endMarker                                                 *)
(*   tpl    the template of an HTMLContent, a Template of heap.templates   *)
(*   cs     #contents of an array; of an HTMLContent, marker[contentKey]   *)
(*          of each slot marker                                            *)
(*   ms     #slotMarkers                                                   *)
(*   es     the elements the attribute wires found                         *)
(*   byKey  #contentsByKey, the properties in the order they were set      *)
(*   val    #string of a StringContent ("string"); a PropertiesContent is  *)
(*          "properties"                                                   *)
(*   fr     of an array, the pass (frame) whose contents and contentsByKey *)
(*          arrays #contents and #contentsByKey are (0: the constructor's)  *)
(*   ekeys  (history) key() of the entry that recorded each of cs          *)
(***************************************************************************)
NewContent(kind, n1, n2, tpl) ==
    [k |-> kind, n1 |-> n1, n2 |-> n2, tpl |-> tpl, cs |-> <<>>, ms |-> <<>>,
     es |-> <<>>, byKey |-> <<>>, ekeys |-> <<>>, val |-> "", fr |-> 0]

\* object[key], 0 when the property is not set
Lookup(m, key) ==
    IF \E i \in DOMAIN m : m[i][1] = key
    THEN m[CHOOSE i \in DOMAIN m : m[i][1] = key][2]
    ELSE 0

\* object[key] = value
Store(m, key, value) ==
    IF \E i \in DOMAIN m : m[i][1] = key
    THEN Tuple([i \in DOMAIN m |-> IF m[i][1] = key THEN <<key, value>> ELSE m[i]])
    ELSE Append(m, <<key, value>>)

\* HTMLContent.nodes: from the begin marker along nextSibling to the end marker
RECURSIVE Walk(_, _, _)
Walk(h, n, end) ==
    LET next == NextSibling(h, n)
    IN <<n>> \o (IF next = 0 THEN <<Thrown>>
                 ELSE IF next = end THEN <<end>>
                 ELSE Walk(h, next, end))

\* content.nodes(); Thrown is among them when nodes() throws
RECURSIVE Nodes(_, _)
RECURSIVE NodesOfAll(_, _)
Nodes(h, c) ==
    LET x == h.contents[c]
    IN CASE x.k = "text"  -> <<x.n1>>
         [] x.k = "array" -> <<x.n1>> \o NodesOfAll(h, x.cs)
         [] x.k = "html"  -> Walk(h, x.n1, x.n2)
         [] OTHER         -> <<>>
NodesOfAll(h, cs) ==
    IF cs = <<>> THEN <<>> ELSE Nodes(h, Head(cs)) \o NodesOfAll(h, Tail(cs))

\* ElementContent.move: the nodes of the content leave the tree for a new
\* fragment, which is returned.  place() is _place: outside a render it is
\* undefined and reading its document throws.  An AttributeContent and a
\* TagContent have no move.
Move(h, c) ==
    IF h.cur = 0 \/ h.contents[c].k \in {"string", "properties"}
    THEN [h EXCEPT !.err = "TypeError", !.ret = Thrown]
    ELSE LET h1   == CreateNode(h, "fragment", "")
             frag == Len(h1.parent)
             ns   == Nodes(h1, c)
         IN IF Thrown \in Range(ns)
            THEN [h1 EXCEPT !.err = "throw", !.ret = Thrown]
            ELSE [AppendNodes(h1, frag, ns) EXCEPT !.ret = frag]

(***************************************************************************)
(* Places.  A CurrentPlace is [type, placement, c, i, f, ekey, key, e, doc]: *)
(*   "mount"  the place target.render makes                                *)
(*   "user"   the place of a render call made by a function of the caller; *)
(*            its priorContent returns undefined, its update does nothing  *)
(*   "slot"   the place of slot i of the HTMLContent c                     *)
(*   "entry"  the place of an entry of the pass whose locals are frame f;  *)
(*            ekey is the _key of the entry's getKey, "" while unset       *)
(*   key      place[keySym]                                                *)
(*   e        the element of a mount place                                 *)
(*   doc      place.document                                               *)
(***************************************************************************)
MountPlace(e) ==
    [type |-> "mount", placement |-> "element", c |-> 0, i |-> 0, f |-> 0,
     ekey |-> "", key |-> NoKey, e |-> e, doc |-> e]
SlotPlace(c, i) ==
    [type |-> "slot", placement |-> "element", c |-> c, i |-> i, f |-> 0,
     ekey |-> "", key |-> NoKey, e |-> 0, doc |-> 0]
EntryPlace(f) ==
    [type |-> "entry", placement |-> "element", c |-> 0, i |-> 0, f |-> f,
     ekey |-> "", key |-> NoKey, e |-> 0, doc |-> 0]
UserPlace(kind) ==
    [type |-> "user", placement |-> kind, c |-> 0, i |-> 0, f |-> 0,
     ekey |-> "", key |-> NoKey, e |-> 0, doc |-> 0]

\* key(): the key of _place
Key(h) == h.places[h.cur].key

\* getKey of the entry place p:
\*   _key = (_key || key() != null) ? 'key-' + key() : 'index-' + index++
GetKey(h, p) ==
    LET f == h.places[p].f
    IN IF h.places[p].ekey # "" \/ HasKey(Key(h))
       THEN [h EXCEPT !.places[p].ekey = "key-" \o KeyString(Key(h))]
       ELSE [h EXCEPT !.places[p].ekey = "index-" \o ToString(h.frames[f].index),
                      !.frames[f].index = @ + 1]

\* PriorContent with every slot of an instance reading the cell of the first
PriorContentOfFirstSlot(h, p) ==
    LET pl == h.places[p]
    IN CASE pl.type = "mount" -> [h EXCEPT !.ret = h.mount[pl.e].content]
         [] pl.type = "user"  -> [h EXCEPT !.ret = 0]
         [] pl.type = "slot"  -> [h EXCEPT !.ret = h.contents[pl.c].cs[1]]
         [] pl.type = "entry" ->
                LET h1 == GetKey(h, p)
                IN [h1 EXCEPT !.ret = Lookup(h1.contents[h1.frames[pl.f].arr].byKey,
                                             h1.places[p].ekey),
                              !.frames[pl.f].lookups =
                                  Append(@, [key |-> Key(h1), mapKey |-> h1.places[p].ekey])]

\* place.priorContent of the place p; the content (0: undefined) is left in ret
PriorContent(h, p) ==
    LET pl == h.places[p]
    IN CASE pl.type = "mount" -> [h EXCEPT !.ret = h.mount[pl.e].content]
         [] pl.type = "user"  -> [h EXCEPT !.ret = 0]
         [] pl.type = "slot"  -> [h EXCEPT !.ret = h.contents[pl.c].cs[pl.i]]
         [] pl.type = "entry" ->
                LET h1 == GetKey(h, p)
                IN [h1 EXCEPT !.ret = Lookup(h1.contents[h1.frames[pl.f].arr].byKey,
                                             h1.places[p].ekey),
                              !.frames[pl.f].lookups =
                                  Append(@, [key |-> Key(h1), mapKey |-> h1.places[p].ekey])]

(***************************************************************************)
(* The compiled templates.  composeTemplate parses the template strings    *)
(* and wireSlots replaces every slot token found in a text node by the     *)
(* texts around it and a <slot> element, and records an attribute wire     *)
(* for every attribute value holding tokens.  Skeleton(t) is the content   *)
(* of the template element that leaves, node by node in document order:    *)
(*   type   element, text or slot                                          *)
(*   up     the node it is a child of (0: the template's content)          *)
(*   val    the text of a text node                                        *)
(*   var    variableIndex of a slot                                        *)
(*   first, head, tail  the attribute wire of an element: firstSlot,       *)
(*          stringsHead, stringsTail (first = -1: no wire)                 *)
(* The templates:                                                          *)
(*   "span"         <span id="test">test</span>                            *)
(*   "div", "div2"  <div id="test${0}">${1}</div>, written twice           *)
(*   "two"          ${0}<b>${1}</b>                                        *)
(*   "cls"          <i class="x${0}y${1}z"></i>                            *)
(***************************************************************************)
SkElement(up, first, head, tail) ==
    [type |-> "element", up |-> up, val |-> "", var |-> -1,
     first |-> first, head |-> head, tail |-> tail]
SkText(up, s) ==
    [type |-> "text", up |-> up, val |-> s, var |-> -1,
     first |-> -1, head |-> "", tail |-> <<>>]
SkSlot(up, var) ==
    [type |-> "slot", up |-> up, val |-> "", var |-> var,
     first |-> -1, head |-> "", tail |-> <<>>]

Skeleton(t) ==
    CASE t = "span" -> << SkElement(0, -1, "", <<>>), SkText(1, "test") >>
      [] t \in {"div", "div2"} ->
            << SkElement(0, 0, "test", <<"">>),
               SkText(1, ""), SkSlot(1, 1), SkText(1, "") >>
      [] t = "two" ->
            << SkText(0, ""), SkSlot(0, 0), SkText(0, ""),
               SkElement(0, -1, "", <<>>),
               SkText(4, ""), SkSlot(4, 1), SkText(4, "") >>
      [] t = "cls" -> << SkElement(0, 0, "x", <<"y", "z">>) >>

\* template[elementsKey] and template[attributesKey]: the wires, as the
\* positions in the skeleton of the slots and of the wired elements
ElementWires(t) ==
    SelectSeq([i \in DOMAIN Skeleton(t) |-> i], LAMBDA i : Skeleton(t)[i].type = "slot")
AttributeWires(t) ==
    SelectSeq([i \in DOMAIN Skeleton(t) |-> i], LAMBDA i : Skeleton(t)[i].first >= 0)

\* whether a value has a string: ToString of a Symbol throws a TypeError, and
\* so does the join of an array that holds one
RECURSIVE Stringable(_)
Stringable(v) ==
    CASE v.t = "sym" -> FALSE
      [] v.t = "arr" -> \A i \in DOMAIN v.xs : Stringable(v.xs[i])
      [] OTHER       -> TRUE

\* the string  '' + value  and  `${value}`  make of a value that has one
RECURSIVE ValueString(_)
RECURSIVE JoinValues(_)
ValueString(v) ==
    CASE v.t = "str" -> v.a
      [] v.t = "num" -> NumberString(v.a)
      [] v.t \in {"null", "undefined", "bool"} -> v.a
      [] v.t = "obj" -> "[object Object]"
      [] v.t = "arr" -> JoinValues(v.xs)
      [] v.t = "sym" -> v.a   \* String(value); `${value}` throws instead
      [] OTHER       -> "[object]"

\* Array.prototype.join: null and undefined items give the empty string
JoinValues(vs) ==
    IF vs = <<>> THEN ""
    ELSE (IF Nullish(Head(vs)) THEN "" ELSE ValueString(Head(vs)))
         \o (IF Len(vs) = 1 THEN "" ELSE "," \o JoinValues(Tail(vs)))

\* updateVariables: stringsHead + values[s++] + string, for each string of stringsTail
RECURSIVE JoinWire(_, _, _, _)
JoinWire(a, tail, s, values) ==
    IF tail = <<>> THEN a
    ELSE JoinWire(a \o ValueString(values[s + 1]) \o Head(tail), Tail(tail), s + 1, values)

(***************************************************************************)
(* The naming and the finding of slots.  Here a string is the sequence of  *)
(* its characters, and templateStrings a sequence of such strings.         *)
(***************************************************************************)
Max(S) == CHOOSE x \in S : \A y \in S : y <= x
Min(S) == CHOOSE x \in S : \A y \in S : x <= y

DigitChars == <<"0", "1", "2", "3", "4", "5", "6", "7", "8", "9">>
IsDigit(ch) == \E d \in DOMAIN DigitChars : DigitChars[d] = ch

\* the string 'undefined', which is what a string operation makes of undefined
UndefinedString == <<"u", "n", "d", "e", "f", "i", "n", "e", "d">>

\* parseInt of a string that holds nothing but digits
NaN == -1000
RECURSIVE DigitsValue(_)
DigitsValue(ds) ==
    IF ds = <<>> THEN 0
    ELSE 10 * DigitsValue(SubSeq(ds, 1, Len(ds) - 1))
         + (CHOOSE d \in DOMAIN DigitChars : DigitChars[d] = ds[Len(ds)]) - 1
ParseInt(ds) == IF ds = <<>> THEN NaN ELSE DigitsValue(ds)

\* the decimal string of the number n
RECURSIVE Decimal(_)
Decimal(n) ==
    IF n < 10 THEN <<DigitChars[n + 1]>>
    ELSE Decimal(n \div 10) \o <<DigitChars[(n % 10) + 1]>>

\* the string w is in the string s at the position i (from 1)
StartsWith(s, i, w) ==
    /\ i + Len(w) - 1 <= Len(s)
    /\ \A j \in 1..Len(w) : s[i + j - 1] = w[j]

\* s.indexOf(w, from): positions from 0, -1 when there is none
IndexOfFrom(s, w, from) ==
    LET at == {i \in (from + 1)..(Len(s) + 1) : StartsWith(s, i, w)}
    IN IF at = {} THEN -1 ELSE Min(at) - 1

\* the longest of the matches of /{*/g in the string s, as its length
LongestRun(s) ==
    Max({k \in 0..Len(s) :
            \E i \in 1..(Len(s) - k + 1) : \A j \in i..(i + k - 1) : s[j] = "{"})

\* nameSlots(templateStrings): prefix is a '{' and the longest run of '{' in
\* any of the strings, names the name of each variable; regexp is made of
\* prefix
NameSlots(strings) ==
    LET prefix == Tuple([i \in 1..(1 + Max({LongestRun(strings[k]) : k \in DOMAIN strings}))
                            |-> "{"])
    IN [prefix |-> prefix,
        names  |-> Tuple([i \in 1..(Len(strings) - 1) |->
                             prefix \o Decimal(i - 1) \o <<"}">>])]

\* templateString as composeTemplate puts it together
RECURSIVE TemplateString(_, _, _)
TemplateString(strings, names, i) ==
    IF i > Len(strings) THEN <<>>
    ELSE (IF i = 1 THEN <<>> ELSE names[i - 1]) \o strings[i]
         \o TemplateString(strings, names, i + 1)

\* slotInfo.regexp.exec(string): the first position at which prefix, digits
\* as many as there are and '}' follow each other; match[0] and match[1]
DigitsEnd(s, j) == Min({k \in j..(Len(s) + 1) : k > Len(s) \/ ~IsDigit(s[k])})
MatchesAt(s, i, prefix) ==
    /\ StartsWith(s, i, prefix)
    /\ DigitsEnd(s, i + Len(prefix)) <= Len(s)
    /\ s[DigitsEnd(s, i + Len(prefix))] = "}"
Exec(s, prefix) ==
    LET at == {i \in 1..Len(s) : MatchesAt(s, i, prefix)}
    IN IF at = {} THEN [found |-> FALSE, index |-> -1, text |-> <<>>, digits |-> <<>>]
       ELSE LET i == Min(at)
                k == DigitsEnd(s, i + Len(prefix))
            IN [found |-> TRUE, index |-> i - 1, text |-> SubSeq(s, i, k),
                digits |-> SubSeq(s, i + Len(prefix), k - 1)]

\* slotInfo.names[slot]: undefined (defined FALSE) past the names
NameAt(names, slot) ==
    IF slot \in 0..(Len(names) - 1)
    THEN [defined |-> TRUE, text |-> names[slot + 1]]
    ELSE [defined |-> FALSE, text |-> UndefinedString]

\* the loop of findStringSlots: name.length throws for a name that is
\* undefined, and indexOf looks for the string 'undefined' then
RECURSIVE FindLoop(_, _, _, _, _, _, _)
FindLoop(names, s, strings, fromIndex, index, name, slot) ==
    IF ~name.defined THEN [err |-> "TypeError", firstSlot |-> -1, strings |-> <<>>]
    ELSE LET from  == index + Len(name.text)
             next  == NameAt(names, IF slot = NaN THEN NaN ELSE slot + 1)
             found == IndexOfFrom(s, next.text, from)
             done  == Append(strings, SubSeq(s, fromIndex + 1, index))
         IN IF found >= 0
            THEN FindLoop(names, s, done, from, found, next,
                          IF slot = NaN THEN NaN ELSE slot + 1)
            ELSE [err |-> "", firstSlot |-> 0,
                  strings |-> Append(done, SubSeq(s, from + 1, Len(s)))]

\* findStringSlots(slotInfo, string)
FindStringSlots(info, s) ==
    LET match == Exec(s, info.prefix)
    IN IF ~match.found THEN [err |-> "", firstSlot |-> -1, strings |-> <<>>]
       ELSE [FindLoop(info.names, s, <<>>, 0, match.index,
                      [defined |-> TRUE, text |-> match.text], ParseInt(match.digits))
                EXCEPT !.firstSlot = IF @ = 0 THEN ParseInt(match.digits) ELSE @]

(***************************************************************************)
(* Placements, action factories and toAction.  A factory is named; what it *)
(* returns for a value is [res, action, err]: res "accept" with the action *)
(* it returned, "decline" when it returned undefined, "throw" with the     *)
(* exception err.  "boolAction", "anyAction" and "noAction" are factories  *)
(* a caller of defineAction hands in:                                      *)
(*   v => typeof v === 'boolean' ? () => String(v) : undefined             *)
(*   v => html`<span id="test">test</span>`                                *)
(*   v => undefined                                                        *)
(***************************************************************************)
Accept(a) == [res |-> "accept",  action |-> a,    err |-> "", consulted |-> <<>>]
Decline   == [res |-> "decline", action |-> Null, err |-> "", consulted |-> <<>>]
Raise(e)  == [res |-> "throw",   action |-> Null, err |-> e,  consulted |-> <<>>]

\* the actions the built-in factories return
TextActionOf(s)        == [t |-> "text",   a |-> s,  xs |-> <<>>]
ArrayActionOf(actions) == [t |-> "array",  a |-> "", xs |-> actions]
StringActionOf(s)      == [t |-> "string", a |-> s,  xs |-> <<>>]
PropertiesActionOf(o)  == [t |-> "properties", a |-> "", xs |-> <<o>>]

\* new Error(`Failed to convert argument ${value} to action for ${placement}.`)
ConversionError(v, kind) ==
    "Error: Failed to convert argument " \o ValueString(v)
        \o " to action for " \o kind \o "."

RECURSIVE ToAction(_, _, _)
RECURSIVE Scan(_, _, _, _, _)
RECURSIVE MapToAction(_, _, _)

MakeTextAction(v) ==
    CASE Nullish(v)  -> Accept(TextActionOf(""))
      [] v.t = "num" -> Accept(TextActionOf(NumberString(v.a)))
      [] v.t = "str" -> Accept(TextActionOf(v.a))
      [] OTHER       -> Decline

\* values.map(v => toAction(Placement.Element, v)): the actions so far, or
\* the exception of the first item that has none
MapToAction(reg, vs, done) ==
    IF vs = <<>> THEN Accept(ArrayActionOf(done))
    ELSE LET r == ToAction(reg, "element", Head(vs))
         IN IF r.res = "throw" THEN Raise(r.err)
            ELSE MapToAction(reg, Tail(vs), Append(done, r.action))

MakeArrayAction(reg, v) ==
    CASE Nullish(v)  -> Accept(ArrayActionOf(<<>>))
      [] v.t = "arr" -> MapToAction(reg, v.xs, <<>>)
      [] OTHER       -> Decline

MakeStringAction(v) ==
    CASE Nullish(v)  -> Accept(StringActionOf(""))
      [] v.t = "num" -> Accept(StringActionOf(NumberString(v.a)))
      [] v.t = "str" -> Accept(StringActionOf(v.a))
      [] OTHER       -> Decline

MakeJoinAction(v) == Raise("join action not implemented")

\* typeof value is 'object' for an array as for a plain object
MakePropertiesAction(v) ==
    CASE Nullish(v)             -> Accept(PropertiesActionOf(Obj))
      [] v.t \in {"obj", "arr"} -> Accept(PropertiesActionOf(v))
      [] OTHER                  -> Decline

\* f(value)
Factory(reg, f, v) ==
    CASE f = "makeTextAction"       -> MakeTextAction(v)
      [] f = "makeArrayAction"      -> MakeArrayAction(reg, v)
      [] f = "makeStringAction"     -> MakeStringAction(v)
      [] f = "makeJoinAction"       -> MakeJoinAction(v)
      [] f = "makePropertiesAction" -> MakePropertiesAction(v)
      [] f = "boolAction" -> IF v.t = "bool" THEN Accept(Fn(Str(v.a))) ELSE Decline
      [] f = "anyAction"  -> Accept(Html("span", <<>>))
      [] f = "noAction"   -> Decline

\* the loop of toAction from the factory at i down; seen are the positions
\* of the factories it has called
Scan(reg, kind, v, i, seen) ==
    IF i = 0
    THEN [Raise(IF Stringable(v) THEN ConversionError(v, kind) ELSE "TypeError")
             EXCEPT !.consulted = seen]
    ELSE LET r == Factory(reg, reg[kind][i], v)
         IN IF r.res = "decline" THEN Scan(reg, kind, v, i - 1, Append(seen, i))
            ELSE [r EXCEPT !.consulted = Append(seen, i)]

\* ToAction that asks the factories about a function too
ToActionAlwaysScans(reg, kind, v) == Scan(reg, kind, v, Len(reg[kind]), <<>>)

\* toAction(placement, value), reg being actionFactories
ToAction(reg, kind, v) ==
    IF Callable(v) THEN Accept(v)
    ELSE Scan(reg, kind, v, Len(reg[kind]), <<>>)

\* defineAction(placement, action)
DefineAction(reg, kind, f) == [reg EXCEPT ![kind] = Append(@, f)]

(***************************************************************************)
(* The render loop, the actions and the contents they make.                *)
(***************************************************************************)
RECURSIVE RenderInPlace(_, _, _)
RECURSIVE Resolve(_, _)
RECURSIVE Invoke(_, _)
RECURSIVE PatchEntries(_, _, _)
RECURSIVE PatchSlots(_, _, _, _)

Failed(h) == h.err # ""

\* what follows a step: op of the heap h it left, unless it threw
Then(h, op(_)) == IF Failed(h) THEN h ELSE op(h)

\* op of the heap h a step left, thrown or not
With(h, op(_)) == op(h)

\* return c
Returning(h, c) == [h EXCEPT !.ret = c]

\* return v, a value that is no Content
ReturningValue(h, v) == [h EXCEPT !.ret = 0, !.val = v]

\* (history) a step of the render loop: what place() and action() are as it
\* is taken, and the Content c and the value v it is about
Event(h, ev, c, v) ==
    [h EXCEPT !.trace = Append(@, [ev |-> ev, place |-> h.cur, act |-> h.act,
                                   c |-> c, v |-> v])]

\* Render with the new place given the key of _place
RenderKeyInherited(h, pl, v) ==
    IF h.cur = 0 THEN [h EXCEPT !.err = "TypeError"]
    ELSE With(PriorContent(h, h.cur), LAMBDA h1 :
            RenderInPlace([h1 EXCEPT !.places =
                                 Append(@, [pl EXCEPT !.doc = h.places[h.cur].doc,
                                                      !.key = h.places[h.cur].key])],
                          Len(h1.places) + 1, v))

\* render(placement, action, priorContent, updateContent): the new place reads
\* _place.document and _place.priorContent as it is made
Render(h, pl, v) ==
    IF h.cur = 0 THEN [h EXCEPT !.err = "TypeError"]
    ELSE With(PriorContent(h, h.cur), LAMBDA h1 :
            RenderInPlace([h1 EXCEPT !.places =
                                 Append(@, [pl EXCEPT !.doc = h.places[h.cur].doc])],
                          Len(h1.places) + 1, v))

\* the update callback of target.render
UpdateMount(h, e, content) ==
    IF content = h.mount[e].content THEN h
    ELSE Then(Move(h, h.mount[e].content), LAMBDA h1 :
         Then(Move([h1 EXCEPT !.mount[e].content = content], content), LAMBDA h2 :
              InsertBefore(h2, e, h2.ret, 0)))

\* UpdateSlot with the new nodes put in before the marker
UpdateSlotBeforeMarker(h, p, content) ==
    LET c      == h.places[p].c
        i      == h.places[p].i
        marker == h.contents[c].ms[i]
    IN IF content = h.contents[c].cs[i] THEN h
       ELSE Then(Move(h, h.contents[c].cs[i]), LAMBDA h1 :
               IF h1.parent[marker] = 0 THEN [h1 EXCEPT !.contents[c].cs[i] = content]
               ELSE Then(Move([h1 EXCEPT !.contents[c].cs[i] = content], content), LAMBDA h3 :
                       InsertBefore(h3, h3.parent[marker], h3.ret, marker)))

\* UpdateSlot with the new nodes put last in the parent of the marker
UpdateSlotAtEnd(h, p, content) ==
    LET c      == h.places[p].c
        i      == h.places[p].i
        marker == h.contents[c].ms[i]
    IN IF content = h.contents[c].cs[i] THEN h
       ELSE Then(Move(h, h.contents[c].cs[i]), LAMBDA h1 :
               IF h1.parent[marker] = 0 THEN [h1 EXCEPT !.contents[c].cs[i] = content]
               ELSE Then(Move([h1 EXCEPT !.contents[c].cs[i] = content], content), LAMBDA h3 :
                       InsertBefore(h3, h3.parent[marker], h3.ret, 0)))

\* the update callback of a slot of an HTMLContent
UpdateSlot(h, p, content) ==
    LET c      == h.places[p].c
        i      == h.places[p].i
        marker == h.contents[c].ms[i]
    IN IF content = h.contents[c].cs[i] THEN h
       ELSE Then(Move(h, h.contents[c].cs[i]), LAMBDA h1 :
               IF h1.parent[marker] = 0 THEN [h1 EXCEPT !.contents[c].cs[i] = content]
               ELSE Then(Move([h1 EXCEPT !.contents[c].cs[i] = content], content), LAMBDA h3 :
                       InsertBefore(h3, h3.parent[marker], h3.ret, NextSibling(h3, marker))))

\* (history) the tree mutations a step of the pass of frame f made, h the heap
\* before it and h2 the heap after
Logged(h, f, h2) ==
    [h2 EXCEPT !.frames[f].muts = @ \o SubSeq(h2.log, Len(h.log) + 1, Len(h2.log))]

\* PlaceEntry with the cursor left where it was when a content stays in place
PlaceEntryCursorKept(h, f, content, found, matchIndex) ==
    IF found /\ matchIndex > h.frames[f].mark
    THEN [h EXCEPT !.frames[f].mark = matchIndex]
    ELSE Then(Move(h, content), LAMBDA m :
            IF h.frames[f].parent = 0 THEN m
            ELSE InsertBefore(m, h.frames[f].parent, m.ret, h.frames[f].next))

\* PlaceEntry with the mark left where it was when a content stays in place
PlaceEntryMarkKept(h, f, content, found, matchIndex) ==
    IF found /\ matchIndex > h.frames[f].mark
    THEN [h EXCEPT !.frames[f].next = NextSibling(h, Nodes(h, content)[Len(Nodes(h, content))])]
    ELSE Then(Move(h, content), LAMBDA m :
            IF h.frames[f].parent = 0 THEN m
            ELSE InsertBefore(m, h.frames[f].parent, m.ret, h.frames[f].next))

\* PlaceEntry with the cursor put at the last node of a content that stays in
\* place
PlaceEntryCursorInside(h, f, content, found, matchIndex) ==
    IF found /\ matchIndex > h.frames[f].mark
    THEN [h EXCEPT !.frames[f].mark = matchIndex,
                   !.frames[f].next = Nodes(h, content)[Len(Nodes(h, content))]]
    ELSE Then(Move(h, content), LAMBDA m :
            IF h.frames[f].parent = 0 THEN m
            ELSE InsertBefore(m, h.frames[f].parent, m.ret, h.frames[f].next))

\* PlaceEntry with every content moved, found or not
PlaceEntryAlwaysMoved(h, f, content, found, matchIndex) ==
    Then(Move(h, content), LAMBDA m :
        IF h.frames[f].parent = 0 THEN m
        ELSE InsertBefore(m, h.frames[f].parent, m.ret, h.frames[f].next))

\* updateContent, from the comparison of matchIndex on: a content found
\* further on than the last one left in place stays where it is and the
\* cursor goes behind its last node; any other is moved in before the cursor
PlaceEntry(h, f, content, found, matchIndex) ==
    IF found /\ matchIndex > h.frames[f].mark
    THEN LET e == Nodes(h, content)
         IN IF Thrown \in Range(e) THEN [h EXCEPT !.err = "throw"]
            ELSE IF e = <<>> THEN [h EXCEPT !.err = "TypeError"]
            ELSE [h EXCEPT !.frames[f].mark = matchIndex,
                           !.frames[f].next = NextSibling(h, e[Len(e)])]
    ELSE Then(Move(h, content), LAMBDA m :
            IF h.frames[f].parent = 0 THEN m
            ELSE InsertBefore(m, h.frames[f].parent, m.ret, h.frames[f].next))

\* contents.push(content) and contentsByKey[getKey()] = content by an entry of
\* a pass that has completed: the two arrays of the pass are #contents and
\* #contentsByKey of its array until a later pass completes
Shared(h, f) ==
    IF h.contents[h.frames[f].arr].fr # f THEN h
    ELSE [h EXCEPT !.contents[h.frames[f].arr].cs = h.frames[f].contents,
                   !.contents[h.frames[f].arr].byKey = h.frames[f].byKey,
                   !.contents[h.frames[f].arr].ekeys = h.frames[f].ekeys]

\* (history) a call of updateContent in the pass of frame f, for the content
\* c: matchIndex when it was found in indicesByContent, h the heap before the
\* comparison of matchIndex and h2 the heap after the branch taken
Stepped(h, f, c, found, matchIndex, h2) ==
    LET par == h.frames[f].parent
    IN [h2 EXCEPT !.frames[f].steps = Append(@,
          [c |-> c, found |-> found, matchIndex |-> IF found THEN matchIndex ELSE -1,
           mark0 |-> h.frames[f].mark, mark1 |-> h2.frames[f].mark,
           next0 |-> h.frames[f].next, next1 |-> h2.frames[f].next,
           parent |-> par,
           kids0 |-> IF par = 0 THEN <<>> ELSE h.kids[par],
           kids1 |-> IF par = 0 THEN <<>> ELSE h2.kids[par],
           nodes0 |-> Nodes(h, c), nodes1 |-> Nodes(h2, c),
           muts |-> SubSeq(h2.log, Len(h.log) + 1, Len(h2.log)),
           err |-> h2.err])]

\* updateContent of an entry of ArrayContent.patch
UpdateEntry(h, p, content) ==
    LET f     == h.places[p].f
        found == \E i \in DOMAIN h.frames[f].ind : h.frames[f].ind[i][1] = content
        matchIndex == Lookup(h.frames[f].ind, content)
    IN Then(Stepped(h, f, content, found, matchIndex,
                    Logged(h, f, PlaceEntry([h EXCEPT !.frames[f].ind =
                                                SelectSeq(@, LAMBDA e : e[1] # content)],
                                            f, content, found, matchIndex))),
            LAMBDA h3 :
                With(GetKey([h3 EXCEPT !.frames[f].contents = Append(@, content),
                                       !.frames[f].ekeys = Append(@, Key(h3))], p),
                     LAMBDA h4 : Shared([h4 EXCEPT !.frames[f].byKey =
                                     Store(@, h4.places[p].ekey, content),
                                  !.frames[f].records =
                                     Append(@, [key |-> Key(h4),
                                                mapKey |-> h4.places[p].ekey])], f)))

\* (history) a call of the update callback of the slot of the place p with
\* content, that took the heap h to h2
SlotUpdated(h, p, content, h2) ==
    LET c      == h.places[p].c
        i      == h.places[p].i
        marker == h.contents[c].ms[i]
        old    == h.contents[c].cs[i]
    IN [h2 EXCEPT !.updates = Append(@,
          [c |-> c, i |-> i, marker |-> marker, old |-> old, new |-> content,
           cell |-> h2.contents[c].cs[i],
           oldNodes |-> Nodes(h, old), newNodes |-> Nodes(h2, content),
           parent0 |-> h.parent[marker], parent1 |-> h2.parent[marker],
           kids0 |-> IF h.parent[marker] = 0 THEN <<>> ELSE h.kids[h.parent[marker]],
           kids1 |-> IF h2.parent[marker] = 0 THEN <<>> ELSE h2.kids[h2.parent[marker]],
           muts |-> SubSeq(h2.log, Len(h.log) + 1, Len(h2.log)),
           err |-> h2.err])]

\* _place.update(content)
Update(h, content) ==
    LET pl == h.places[h.cur]
    IN CASE pl.type = "mount" -> UpdateMount(h, pl.e, content)
         [] pl.type = "user"  -> h
         [] pl.type = "slot"  -> SlotUpdated(h, h.cur, content,
                                             UpdateSlot(h, h.cur, content))
         [] pl.type = "entry" -> UpdateEntry(h, h.cur, content)

\* Restore that restores nothing
RestoreNothing(h2, h) ==
    h2

\* _action = parentAction; _place = parentPlace, h being the heap as
\* renderInPlace was entered
Restore(h2, h) ==
    [h2 EXCEPT !.act = h.act, !.cur = h.cur]

\* renderInPlace(place, action)
RenderInPlace(h, p, v) ==
    Then(Then(Resolve([Event(h, "enter", p, v) EXCEPT !.cur = p], v),
              LAMBDA h1 : Update(Event(h1, "update", h1.ret, NoValue), h1.ret)),
         LAMBDA h2 : Event(Restore(h2, h), "exit", p, NoValue))

\* the action makeTextAction returns for the string s
TextAction(h, s) ==
    With(PriorContent(h, h.cur), LAMBDA h1 :
        IF h1.ret # 0 /\ h1.contents[h1.ret].k = "text"
        THEN [h1 EXCEPT !.nval[h1.contents[h1.ret].n1] = s]
        ELSE [CreateNode(h1, "text", s) EXCEPT
                 !.contents = Append(@, NewContent("text", Len(h1.parent) + 1, 0, 0)),
                 !.ret = Len(h1.contents) + 1])

\* Indices with no content in it
IndicesOfNone(m, cs, i) == m

\* indicesByContent: the index of each of the previous contents
RECURSIVE Indices(_, _, _)
Indices(m, cs, i) ==
    IF i > Len(cs) THEN m ELSE Indices(Store(m, cs[i], i - 1), cs, i + 1)

\* the loop of ArrayContent.patch over the actions
PatchEntries(h, f, items) ==
    IF items = <<>> THEN h
    ELSE Then(Render(h, EntryPlace(f), Head(items)),
              LAMBDA h1 : PatchEntries(h1, f, Tail(items)))

\* Cleanup with nothing moved out
CleanupNothing(h, f, ind) == h

\* the loop of ArrayContent.patch over what is left of indicesByContent
RECURSIVE Cleanup(_, _, _)
Cleanup(h, f, ind) ==
    IF ind = <<>> THEN h
    ELSE Then(Logged(h, f, Move(h, Head(ind)[1])),
              LAMBDA h1 : Cleanup(h1, f, Tail(ind)))

\* the class and the Template of each of the contents cs
KindsOfEach(h, cs) == Tuple([i \in DOMAIN cs |-> <<h.contents[cs[i]].k, h.contents[cs[i]].tpl>>])

\* the nodes of each of the contents cs
NodesOfEach(h, cs) == Tuple([i \in DOMAIN cs |-> Nodes(h, cs[i])])

\* the local variables of ArrayContent.patch as the loop over the actions starts
NewFrame(h, c) ==
    [arr |-> c, parent |-> h.parent[h.contents[c].n1],
     next |-> NextSibling(h, h.contents[c].n1),
     contents |-> <<>>, byKey |-> <<>>, ekeys |-> <<>>,
     ind |-> Indices(<<>>, h.contents[c].cs, 1), mark |-> -1, index |-> 0,
     muts |-> <<>>,      \* (history) the tree mutations of the pass
     steps |-> <<>>,     \* (history) the calls of updateContent
     lookups |-> <<>>,   \* (history) key() and getKey() of each priorContent
     records |-> <<>>]   \* (history) key() and getKey() of each updateContent

\* (history) the pass of the array c that took the heap h to h4 is recorded
Completed(h, c, f, h4) ==
    LET marker == h.contents[c].n1
        parent == h.parent[marker]
    IN [h4 EXCEPT !.passes = Append(@,
          [arr |-> c, marker |-> marker,
           parent0 |-> parent, parent1 |-> h4.parent[marker],
           sib0 |-> IF parent = 0 THEN <<>> ELSE h.kids[parent],
           sib1 |-> IF parent = 0 THEN <<>> ELSE h4.kids[parent],
           old |-> h.contents[c].cs, oldKeys |-> h.contents[c].ekeys,
           oldKinds |-> KindsOfEach(h, h.contents[c].cs),
           oldNodes |-> NodesOfEach(h, h.contents[c].cs),
           new |-> h4.contents[c].cs, newKeys |-> h4.contents[c].ekeys,
           newByKey |-> h4.contents[c].byKey,
           newKinds |-> KindsOfEach(h4, h4.contents[c].cs),
           newNodes |-> NodesOfEach(h4, h4.contents[c].cs),
           muts |-> h4.frames[f].muts,
           lookups |-> h4.frames[f].lookups, records |-> h4.frames[f].records,
           log0 |-> Len(h.log), log1 |-> Len(h4.log)])]

\* ArrayContent.patch(actions) of the array c
ArrayPatch(h, c, items) ==
    LET f == Len(h.frames) + 1
    IN Then(PatchEntries([h EXCEPT !.frames = Append(@, NewFrame(h, c))], f, items),
            LAMBDA h2 :
       Then(Cleanup(h2, f, h2.frames[f].ind),
            LAMBDA h3 :
       Completed(h, c, f, [h3 EXCEPT !.contents[c].cs = h3.frames[f].contents,
                                     !.contents[c].byKey = h3.frames[f].byKey,
                                     !.contents[c].ekeys = h3.frames[f].ekeys,
                                     !.contents[c].fr = f])))

\* the action makeArrayAction returns for the array items
ArrayAction(h, items) ==
    With(PriorContent(h, h.cur), LAMBDA h1 :
        IF h1.ret # 0 /\ h1.contents[h1.ret].k = "array"
        THEN Returning(ArrayPatch(h1, h1.ret, items), h1.ret)
        ELSE LET marker == Len(h1.parent) + 1
                 frag   == Len(h1.parent) + 2
                 new    == Len(h1.contents) + 1
                 h2     == CreateNode(CreateNode(h1, "comment", "array"), "fragment", "")
                 h3     == [h2 EXCEPT !.contents = Append(@, NewContent("array", marker, 0, 0))]
             IN Returning(ArrayPatch(AppendNodes(h3, frag, <<marker>>), new, items), new))

\* the template strings of the Template tpl
StringsOf(h, tpl) == h.templates[tpl].strings

\* template.content.cloneNode(true), appended to the fragment of the instance;
\* each <slot> is replaced by its marker comment.  Node i of the skeleton
\* becomes node off + i.
RECURSIVE CloneSkeleton(_, _, _, _, _)
CloneSkeleton(h, specs, i, frag, off) ==
    IF i > Len(specs) THEN h
    ELSE LET sp  == specs[i]
             h1  == IF sp.type = "slot"
                    THEN CreateNode(h, "comment", "slot-" \o ToString(sp.var))
                    ELSE CreateNode(h, sp.type, sp.val)
             n   == Len(h1.parent)
             par == IF sp.up = 0 THEN frag ELSE off + sp.up
         IN CloneSkeleton([h1 EXCEPT !.parent[n] = par, !.kids[par] = Append(@, n)],
                          specs, i + 1, frag, off)

\* patchSlots: render(Placement.Element, values[wire.variableIndex], ...) per element wire
PatchSlots(h, c, i, values) ==
    LET t     == StringsOf(h, h.contents[c].tpl)
        wires == ElementWires(t)
    IN IF i > Len(wires) THEN h
       ELSE Then(Render(h, SlotPlace(c, i), values[Skeleton(t)[wires[i]].var + 1]),
                 LAMBDA h1 : PatchSlots(h1, c, i + 1, values))

\* e.setAttribute(attributeName, a)
SetAttribute(h, n, a) ==
    [h EXCEPT !.nval[n] = a, !.writes = Append(@, [n |-> n, val |-> a])]

\* patchAttributes: the function updateVariables returned, per attribute
\* wire from the j-th on; values[s++] + string throws for a value that has
\* no string
RECURSIVE PatchAttributes(_, _, _, _)

\* PatchAttributes with an attribute written only when its text is another
PatchAttributesIfChanged(h, c, j, values) ==
    LET t     == StringsOf(h, h.contents[c].tpl)
        wires == AttributeWires(t)
    IN IF j > Len(wires) THEN h
       ELSE LET sp == Skeleton(t)[wires[j]]
                a  == JoinWire(sp.head, sp.tail, sp.first, values)
            IN PatchAttributes(IF h.nval[h.contents[c].es[j]] = a THEN h
                               ELSE SetAttribute(h, h.contents[c].es[j], a),
                               c, j + 1, values)

PatchAttributes(h, c, j, values) ==
    LET t     == StringsOf(h, h.contents[c].tpl)
        wires == AttributeWires(t)
    IN IF j > Len(wires) THEN h
       ELSE LET sp == Skeleton(t)[wires[j]]
            IN IF \E k \in DOMAIN sp.tail : ~Stringable(values[sp.first + k])
               THEN [h EXCEPT !.err = "TypeError"]
               ELSE PatchAttributes(
                        SetAttribute(h, h.contents[c].es[j],
                                     JoinWire(sp.head, sp.tail, sp.first, values)),
                        c, j + 1, values)

\* HTMLContent.patch(values)
HtmlPatch(h, c, values) ==
    Then(PatchSlots(h, c, 1, values), LAMBDA h1 : PatchAttributes(h1, c, 1, values))

\* new HTMLContent(template, values)
HtmlConstruct(h, t, values) ==
    LET base   == Len(h.parent)
        begin  == base + 1
        end    == base + 2
        frag   == base + 3
        c      == Len(h.contents) + 1
        slots  == ElementWires(StringsOf(h, t))
        attrs  == AttributeWires(StringsOf(h, t))
        h1     == CreateNode(CreateNode(CreateNode(h, "comment", "html-begin"),
                                        "comment", "html-end"), "fragment", "")
        h3     == CloneSkeleton(AppendNodes(h1, frag, <<begin>>), Skeleton(StringsOf(h, t)),
                                    1, frag, frag)
        h5     == [AppendNodes(h3, frag, <<end>>) EXCEPT !.contents =
                      Append(@, [NewContent("html", begin, end, t) EXCEPT
                                    !.ms = Tuple([i \in DOMAIN slots |-> frag + slots[i]]),
                                    !.es = Tuple([j \in DOMAIN attrs |-> frag + attrs[j]]),
                                    !.cs = Tuple([i \in DOMAIN slots |-> c + i])])
                      \o Tuple([i \in DOMAIN slots |-> NewContent("empty", 0, 0, 0)])]
    IN Returning(HtmlPatch(h5, c, values), c)

\* the nodes of the instance c, those under its elements included, and those
\* of them that are no part of the content of a slot: the skeleton
InstanceNodes(h, c) == SubtreeAll(h, Nodes(h, c))
SkeletonNodes(h, c) ==
    LET inSlot == Range(SubtreeAll(h, NodesOfAll(h, h.contents[c].cs)))
    IN SelectSeq(InstanceNodes(h, c), LAMBDA n : n \notin inSlot)

\* the text of each slot of the instance c whose content is a TextContent
SlotTexts(h, c) ==
    Tuple([i \in DOMAIN h.contents[c].cs |->
        IF h.contents[h.contents[c].cs[i]].k = "text"
        THEN h.nval[h.contents[h.contents[c].cs[i]].n1] ELSE "-"])

\* what of the instance c a patch may or may not touch
Snapshot(h, c) ==
    [nodes |-> InstanceNodes(h, c), skeleton |-> SkeletonNodes(h, c),
     cs |-> h.contents[c].cs, texts |-> SlotTexts(h, c),
     slotKinds |-> KindsOfEach(h, h.contents[c].cs),
     slotNodes |-> NodesOfEach(h, h.contents[c].cs),
     attrs |-> Tuple([j \in DOMAIN h.contents[c].es |-> h.nval[h.contents[c].es[j]]]),
     es |-> h.contents[c].es,
     kinds |-> Tuple([i \in DOMAIN h.contents[c].cs |-> h.contents[h.contents[c].cs[i]].k]),
     attached |-> Attached(h, h.contents[c].n1),
     parent |-> h.parent[h.contents[c].n1],
     index |-> IF h.parent[h.contents[c].n1] = 0 THEN 0
               ELSE IndexOf(h.kids[h.parent[h.contents[c].n1]], h.contents[c].n1)]

\* HtmlContentFor with an instance made whatever the prior content is
HtmlContentAlwaysNew(h, c, t, values) == HtmlConstruct(h, t, values)

\* HtmlContentFor with the instance of any Template patched
HtmlContentAnyTemplate(h, c, t, values) ==
    IF c # 0 /\ h.contents[c].k = "html"
    THEN Returning(HtmlPatch(h, c, values), c)
    ELSE HtmlConstruct(h, t, values)

\* composeTemplate(document, templateStrings): a new Template, the last of
\* templates; what it holds is Skeleton of its template strings
ComposeTemplate(h, d, t) ==
    [h EXCEPT !.templates = Append(@, [strings |-> t, doc |-> d])]

\* templateCache(document)(templateStrings), the cache of the documents and
\* the cache makeCache makes for each taken as one map: populate runs for a
\* key that has no element, and the element is kept
TemplateCache(h, d, t) ==
    IF Lookup(h.cache, <<d, t>>) # 0
    THEN [h EXCEPT !.tpl = Lookup(h.cache, <<d, t>>)]
    ELSE [ComposeTemplate(h, d, t) EXCEPT
             !.cache = Store(@, <<d, t>>, Len(h.templates) + 1),
             !.tpl = Len(h.templates) + 1]

\* template = template || templateCache(place().document)(t) of the template
\* action a: the variable template lives as long as the action, which is the
\* render call for one made by the call site and for ever for one kept
Template(h, a) ==
    IF a.t = "held" /\ Lookup(h.memo, a) # 0
    THEN [h EXCEPT !.tpl = Lookup(h.memo, a)]
    ELSE With(TemplateCache(h, h.places[h.cur].doc, a.a), LAMBDA h1 :
            IF a.t = "held" THEN [h1 EXCEPT !.memo = Store(@, a, h1.tpl)] ELSE h1)

\* (history) the template action of the template strings t is evaluated at a
\* place of the document doc with the Template tpl in hand
Seen(h, a) ==
    [h EXCEPT !.evals = Append(@, [doc |-> h.places[h.cur].doc, strings |-> a.a,
                                   tpl |-> h.tpl])]

\* the body of the action makeHTMLAction returns from the read of the prior
\* content on, the prior content c and the Template t in hand
HtmlContentFor(h, c, t, values) ==
    IF c # 0 /\ h.contents[c].k = "html" /\ h.contents[c].tpl = t
    THEN Returning(HtmlPatch(h, c, values), c)
    ELSE HtmlConstruct(h, t, values)

\* (history) the evaluation of a template action, h1 the heap when the prior
\* content was read, h2 the heap when the action returns
Evaluated(h1, h2, t, values) ==
    LET c      == h1.ret
        isHtml == c # 0 /\ h1.contents[c].k = "html"
    IN [h2 EXCEPT !.acts = Append(@,
          [place |-> h1.places[h1.cur].type, prior |-> c, result |-> h2.ret,
           isHtml |-> isHtml,
           priorTpl |-> IF isHtml THEN h1.contents[c].tpl ELSE 0,
           tpl |-> h1.tpl, strings |-> t, values |-> values,
           created |-> Len(h1.contents),
           writes |-> SubSeq(h2.writes, Len(h1.writes) + 1, Len(h2.writes)),
           before |-> IF isHtml THEN Snapshot(h1, c) ELSE Snapshot(h2, h2.ret),
           after  |-> IF isHtml THEN Snapshot(h2, c) ELSE Snapshot(h2, h2.ret),
           made   |-> Snapshot(h2, h2.ret)])]

\* the action makeHTMLAction returns
HtmlAction(h, a) ==
    With(PriorContent(Seen(Template(h, a), a), h.cur), LAMBDA h1 :
        Then(HtmlContentFor(h1, h1.ret, h1.tpl, a.xs),
             LAMBDA h2 : Evaluated(h1, h2, a.a, a.xs)))

\* a function of the caller that calls render(a.a, a.xs[1], prior, update)
\* between two reads of place() and action() and returns a.xs[2]; one of type
\* "try" catches what the call throws
Nested(h, a) ==
    With(Render(Event(h, "before", h.cur, a), UserPlace(a.a), a.xs[1]),
         LAMBDA h1 :
             Then(IF a.t = "try" THEN [h1 EXCEPT !.err = ""] ELSE h1,
                  LAMBDA h2 : ReturningValue(Event(h2, "after", h.cur, a), a.xs[2])))

\* action().onUndo(hook) while the action evaluates: onUndo() { /* TODO */ },
\* the hook k is kept nowhere
OnUndo(h, k) ==
    h

\* a function of the caller keeps action() and the hook it is about to register
KeepHandle(h) ==
    [h EXCEPT !.hooks = Append(@, [act |-> h.act, place |-> h.cur, fired |-> 0])]

\* a(): the Content it returns is left in ret, any other value in val
Invoke(h, a) ==
    CASE a.t = "text"   -> TextAction(h, a.a)
      [] a.t = "array"  -> ArrayAction(h, a.xs)
      [] a.t \in {"html", "held"} -> HtmlAction(h, a)
      [] a.t = "keyed"  -> ReturningValue([h EXCEPT !.places[h.cur].key = a.a], a.xs[1])
      [] a.t = "fn"     -> ReturningValue(h, a.xs[1])
      [] a.t = "throw"  -> [h EXCEPT !.err = a.a]
      [] a.t = "keep"   ->
            ReturningValue(OnUndo(KeepHandle(h), Len(h.hooks) + 1), a.xs[1])
      [] a.t \in {"nest", "try"} -> Nested(h, a)
      [] a.t = "string" ->
            [h EXCEPT !.contents = Append(@, [NewContent("string", 0, 0, 0)
                                                 EXCEPT !.val = a.a]),
                      !.ret = Len(h.contents) + 1]
      [] a.t = "properties" ->
            [h EXCEPT !.contents = Append(@, NewContent("properties", 0, 0, 0)),
                      !.ret = Len(h.contents) + 1]

\* the body of the loop of renderInPlace once toAction returned r: the new
\* action handle, whose repeat holds the place and the action, a(), the
\* handle's onUndo set to another function that does nothing, and the loop
\* again unless a() returned a Content
Converted(h, r) ==
    IF r.res = "throw" THEN [h EXCEPT !.err = r.err]
    ELSE Then(Invoke(Event([h EXCEPT !.nact = @ + 1, !.act = h.nact + 1,
                                     !.handles = Append(@, [p |-> h.cur, a |-> r.action])],
                           "invoke", 0, r.action),
                     r.action),
              LAMBDA h1 :
                  With(Event(h1, "return", h1.ret, IF h1.ret = 0 THEN h1.val ELSE NoValue),
                       LAMBDA h2 : IF h2.ret # 0 THEN h2 ELSE Resolve(h2, h2.val)))

\* the loop of renderInPlace: toAction(Placement.Element, action), then a(),
\* until the result is a Content, which is left in ret
Resolve(h, v) == Converted(h, ToAction(h.factories, "element", v))

\* target(e).render(action)
TargetRender(h, e, v) ==
    LET h1 == IF h.mount[e].content # 0 THEN h
              ELSE [h EXCEPT !.contents = Append(@, NewContent("empty", 0, 0, 0)),
                             !.mount[e].content = Len(h.contents) + 1]
        h2 == [h1 EXCEPT !.places = Append(@, MountPlace(e))]
        p  == Len(h2.places)
        h3 == IF h2.mount[e].place # 0 THEN h2 ELSE [h2 EXCEPT !.mount[e].place = p]
    IN RenderInPlace(h3, p, v)

\* target(e).clear(): e[placeKey]?.priorContent.move(), then both keys of the
\* element are deleted; move() reads place().document
TargetClear(h, e) ==
    IF h.mount[e].place = 0
    THEN [h EXCEPT !.mount[e] = [content |-> 0, place |-> 0]]
    ELSE IF h.mount[e].content = 0 THEN [h EXCEPT !.err = "TypeError"]
    ELSE Then(Move(h, h.mount[e].content),
              LAMBDA h1 : [h1 EXCEPT !.mount[e] = [content |-> 0, place |-> 0]])

\* handle.repeat() of the action handle n: renderInPlace(p, a)
Repeat(h, n) == RenderInPlace(h, h.handles[n].p, h.handles[n].a)

\* a call from outside: the history of the call before is dropped, and an
\* exception that left it is no longer in flight
Enter(h) ==
    [h EXCEPT !.err = "", !.ret = 0, !.val = NoValue, !.log = <<>>, !.writes = <<>>,
              !.passes = <<>>, !.updates = <<>>,
              !.acts = <<>>, !.trace = <<>>]
Leave(h) == [h EXCEPT !.ret = 0, !.val = NoValue]

(***************************************************************************)
(* The values rendered and the calls.                                      *)
(***************************************************************************)
MaxRenders == 2

\* the calls of a behaviour of SpecKeys, one more: a Content is found twice in
\* a list only by the pass after the one that found it under a key used twice
MaxPasses == 3

\* the calls of a behaviour of SpecConvert
MaxConversions == 2

\* the calls of a behaviour of SpecHandle: a render, a render or a repeat, a repeat
MaxCalls == 3

\* SpecSlots: the length of a string of template strings, the variables of a
\* template, the templates composed in a behaviour
MaxString == 3
MaxVariables == 2
MaxComposed == 1

\* the sequences over S of length at most n
RECURSIVE SeqsUpTo(_, _)
SeqsUpTo(S, n) ==
    IF n = 0 THEN {<<>>}
    ELSE LET R == SeqsUpTo(S, n - 1)
         IN R \cup {Append(r, x) : r \in {q \in R : Len(q) = n - 1}, x \in S}

K(k) == Keyed(k, Str("a"))
U    == Str("a")
Div(s) == Html("div", <<Str(s), Str(s)>>)

\* the lists rendered by SpecList:
\*   every order of every choice among three keyed texts,
\*   a keyed text and unkeyed texts mixed (a key twice among them),
\*   the key 'undefined' and an unkeyed text,
\*   two keyed texts and an unkeyed one between them,
\*   an entry whose value is an array, alone, before and between keyed texts
ListValues ==
    {Arr(es) : es \in
        {s \in SeqsUpTo({K("0"), K("1"), K("2")}, Cardinality({"0", "1", "2"})) : NoDup(s)}
        \cup SeqsUpTo({K("0"), U}, Cardinality({"0", "1", "2"}))
        \cup SeqsUpTo({K("'undefined'"), U}, Cardinality({"0", "1"}))
        \cup { <<Keyed("0", Arr(<<>>))>>, <<Keyed("0", Arr(<<U>>))>>,
               <<Keyed("0", Arr(<<>>)), K("1")>>, <<Keyed("0", Arr(<<U>>)), K("1")>>,
               <<K("1"), Keyed("0", Arr(<<K("1"), K("2")>>)), K("2")>>,
               <<K("1"), Keyed("0", Arr(<<>>)), K("2")>>,
               <<K("0"), U, K("1")>>, <<K("1"), U, K("0")>> } }

\* the lists rendered by SpecKeys: every list of at most two entries over two
\* keyed texts (a key twice among them), two keyed texts with an unkeyed one
\* between them, and a key before and after another
KeyLists ==
    {Arr(es) : es \in
        SeqsUpTo({K("0"), K("1")}, Cardinality({"0", "1"}))
        \cup { <<K("0"), U, K("1")>>, <<K("1"), U, K("0")>>,
               <<K("0"), K("1"), K("0")>> } }

\* the factories handed to defineAction
UserFactories == {"boolAction", "anyAction", "noAction"}

\* the values handed to toAction by SpecConvert: one or two of every type,
\* arrays of none, of a string and of a value no factory accepts, a function
\* and a template action
ConvertValues ==
    { Null, Undefined, Num("7"), Num("1.50"), Str("a"), Str(""), Bool("true"),
      Sym, Obj, Arr(<<>>), Arr(<<Str("a")>>), Arr(<<Bool("true")>>),
      Fn(Str("a")), Html("span", <<>>) }

\* the values rendered by SpecNest: values of every type, chains of functions
\* ending in a text, an array, a value no factory accepts and a throw, and
\* functions calling render for each placement, nested, failing, caught, and
\* as entries of an array
NestValues ==
    { Null, Undefined, Num("7"), Num("1.50"), Str("a"), Str("b"), Bool("true"),
      Sym, Obj, Arr(<<Str("a")>>), Arr(<<Str("a"), Bool("true")>>),
      Fn(Str("a")), Fn(Fn(Str("a"))), Fn(Fn(Fn(Arr(<<>>)))), Fn(Bool("true")),
      Throw, Fn(Throw),
      Nest("element", Str("a"), Str("b")),
      Nest("attribute", Bool("true"), Str("a")),
      Nest("attribute", Str("a"), Str("a")),
      Nest("tag", Obj, Str("a")),
      Nest("element", Nest("element", Fn(Str("a")), Str("b")), Fn(Str("a"))),
      Nest("element", Throw, Str("a")),
      TryNest("element", Throw, Str("a")),
      TryNest("element", Bool("true"), Fn(Str("a"))),
      TryNest("element", Str("a"), Str("b")),
      Arr(<<Nest("element", Str("a"), Str("b")), Nest("element", Str("b"), Str("a"))>>),
      Arr(<<TryNest("element", Throw, Str("a")), Str("b")>>) }

\* the values rendered by Spec: texts, template instances, and arrays of them
Values ==
    { Str("a"), Str("b"),
      Html("span", <<>>), Div("a"), Div("b"), Html("div2", <<Str("a"), Str("a")>>),
      Html("two", <<Str("a"), Str("b")>>), Html("two", <<Str("b"), Str("b")>>),
      Html("two", <<Arr(<<>>), Str("a")>>), Html("two", <<Arr(<<K("0")>>), Str("a")>>),
      Html("two", <<Div("a"), Div("a")>>), Html("two", <<Div("a"), Str("a")>>),
      Html("two", <<Html("span", <<>>), Str("a")>>),
      Html("cls", <<Str("a"), Str("b")>>), Html("cls", <<Str("b"), Num("1.50")>>),
      Html("cls", <<Null, Undefined>>),
      Arr(<<>>), Arr(<<U>>), Arr(<<K("0")>>), Fn(Arr(<<K("0"), K("1")>>)),
      Arr(<<K("1"), K("0")>>),
      Arr(<<Keyed("0", Div("a"))>>), Arr(<<Keyed("0", Div("b")), K("1")>>),
      Arr(<<Keyed("0", Html("div2", <<Str("a"), Str("a")>>))>>),
      Arr(<<Div("a")>>),
      Arr(<<Keyed("0", Div("a")), Keyed("0", Html("div2", <<Str("a"), Str("a")>>))>>) }

\* the values rendered by SpecHandle: functions that keep their handle and
\* register a hook, at the mount, as a list entry and in a template slot,
\* and values that replace, drop or keep the Content they gave
HandleValues ==
    { Keep(Str("a")), Str("b"), Html("span", <<>>),
      Keep(Arr(<<K("0"), K("1")>>)), Keep(Arr(<<U>>)),
      Arr(<<Keyed("0", Keep(Str("a"))), K("1")>>), Arr(<<K("1")>>),
      Arr(<<K("1"), Keyed("0", Keep(Str("a")))>>),
      Html("two", <<Keep(Str("a")), Str("b")>>),
      Html("two", <<Html("span", <<>>), Keep(Html("span", <<>>))>>),
      Html("two", <<Keep(Arr(<<K("0")>>)), Str("b")>>) }

\* the values rendered by SpecClear: a text, a list, a template instance with
\* slots, and two values whose render fails
ClearValues ==
    { Str("a"), Arr(<<K("0"), K("1")>>), Div("a"), Throw, Sym }

\* the values rendered by SpecFail: lists of keyed texts, and lists that have
\* among them a function that throws or one that returns a value no factory
\* accepts
FailValues ==
    { Arr(<<>>), Arr(<<K("0")>>), Arr(<<K("1"), K("0")>>),
      Arr(<<Throw>>), Arr(<<K("1"), Throw>>), Arr(<<K("0"), Throw, K("1")>>),
      Arr(<<K("2"), Fn(Bool("true"))>>) }

\* the values rendered by SpecScope: lists of a keyed and an unkeyed text in
\* either order and of one of them, and lists with an unkeyed text after an
\* entry that renders keyed values itself: a list, keyed or not, a template
\* with a keyed value in a slot, a function that returns a keyed text
ScopeValues ==
    { Arr(<<K("0"), Str("a")>>), Arr(<<Str("a"), K("0")>>),
      Arr(<<Str("a")>>), Arr(<<K("0")>>),
      Arr(<<Keyed("0", Arr(<<Str("a"), K("1")>>)), Str("a")>>),
      Arr(<<Arr(<<K("1"), Str("a")>>), Str("a")>>),
      Arr(<<Html("two", <<K("1"), Str("a")>>), Str("a")>>),
      Arr(<<Fn(K("1")), Str("a")>>) }

\* the values rendered by SpecCache: template actions of two template
\* strings objects of one text and of a third, made for the call and kept,
\* alone, in a slot and as list entries
CacheValues ==
    { Html("span", <<>>), Held("span", <<>>), Div("a"), Html("div2", <<Str("a"), Str("a")>>),
      Held("div", <<Str("a"), Str("b")>>),
      Html("two", <<Held("span", <<>>), Str("a")>>),
      Arr(<<Div("a"), Html("div2", <<Str("a"), Str("a")>>), Div("b")>>) }

\* the strings of the template strings composed by SpecSlots: every string
\* of '{', '}' and '0' up to a length, and the word undefined
SlotStrings == SeqsUpTo({"{", "}", "0"}, MaxString) \cup {UndefinedString}

Init ==
    /\ heap = EmptyHeap
    /\ prev = EmptyHeap
    /\ calls = <<>>

\* (history) a call: of render with the value v, of defineAction with the
\* placement kind and the factory f, of toAction with kind and v, out being
\* what it returned or threw, of repeat with the handle written in kind, of
\* render by SpecCache with the element written in kind
Call(op, kind, f, v, out) == [op |-> op, kind |-> kind, f |-> f, v |-> v, out |-> out]
NoOut == [res |-> "", action |-> Null, err |-> "", consulted |-> <<>>]

\* target(e).render(v)
DoRender(v, n) ==
    /\ Len(calls) < n
    /\ heap' = Leave(TargetRender(Enter(heap), Root, v))
    /\ prev' = heap
    /\ calls' = Append(calls, Call("render", "", "", v, NoOut))

\* target(e).render(v) of either element
DoRenderAt(e, v, n) ==
    /\ Len(calls) < n
    /\ heap' = Leave(TargetRender(Enter(heap), e, v))
    /\ prev' = heap
    /\ calls' = Append(calls, Call("render", ToString(e), "", v, NoOut))

\* defineAction(kind, f)
DoDefineAction(kind, f, n) ==
    /\ Len(calls) < n
    /\ heap' = [Enter(heap) EXCEPT !.factories = DefineAction(@, kind, f)]
    /\ prev' = heap
    /\ calls' = Append(calls, Call("defineAction", kind, f, NoValue, NoOut))

\* repeat() of the k-th of the handles kept
DoRepeat(k, n) ==
    /\ Len(calls) < n
    /\ k \in DOMAIN heap.hooks
    /\ heap' = Leave(Repeat(Enter(heap), heap.hooks[k].act))
    /\ prev' = heap
    /\ calls' = Append(calls, Call("repeat", ToString(k), "", NoValue, NoOut))

\* target(e).clear()
DoClear(e, n) ==
    /\ Len(calls) < n
    /\ heap' = Leave(TargetClear(Enter(heap), e))
    /\ prev' = heap
    /\ calls' = Append(calls, Call("clear", ToString(e), "", NoValue, NoOut))

\* composeTemplate(document, strings) of template strings without markup or
\* character references: the content of the template is one text node, whose
\* text is templateString, and wireSlots calls findStringSlots with it
DoComposeTemplate(strings, n) ==
    /\ Len(calls) < n
    /\ heap' = Enter(heap)
    /\ prev' = heap
    /\ calls' = Append(calls,
          [op |-> "composeTemplate", strings |-> strings,
           info |-> NameSlots(strings),
           text |-> TemplateString(strings, NameSlots(strings).names, 1),
           slots |-> FindStringSlots(NameSlots(strings),
                        TemplateString(strings, NameSlots(strings).names, 1))])

\* toAction(kind, v)
DoToAction(kind, v, n) ==
    /\ Len(calls) < n
    /\ heap' = Enter(heap)
    /\ prev' = heap
    /\ calls' = Append(calls, Call("toAction", kind, "", v,
                                   ToAction(heap.factories, kind, v)))

Next == \E v \in Values : DoRender(v, MaxRenders)

Spec == Init /\ [][Next]_vars

NextList == \E v \in ListValues : DoRender(v, MaxRenders)

SpecList == Init /\ [][NextList]_vars

NextKeys == \E v \in KeyLists : DoRender(v, MaxPasses)

SpecKeys == Init /\ [][NextKeys]_vars

NextConvert ==
    \/ \E kind \in Placement, f \in UserFactories :
            DoDefineAction(kind, f, MaxConversions)
    \/ \E kind \in Placement, v \in ConvertValues :
            DoToAction(kind, v, MaxConversions)

SpecConvert == Init /\ [][NextConvert]_vars

NextCache == \E e \in {Root, Other}, v \in CacheValues : DoRenderAt(e, v, MaxCalls)

SpecCache == Init /\ [][NextCache]_vars

NextClear ==
    \/ \E v \in ClearValues : DoRender(v, MaxCalls)
    \/ DoClear(Root, MaxCalls)

SpecClear == Init /\ [][NextClear]_vars

NextFail == \E v \in FailValues : DoRender(v, MaxCalls)

SpecFail == Init /\ [][NextFail]_vars

NextScope == \E v \in ScopeValues : DoRender(v, MaxCalls)

SpecScope == Init /\ [][NextScope]_vars

NextSlots ==
    /\ Len(calls) < MaxComposed
    /\ \E strings \in SeqsUpTo(SlotStrings, MaxVariables + 1) \ {<<>>} :
          DoComposeTemplate(strings, MaxComposed)

SpecSlots == Init /\ [][NextSlots]_vars

NextHandle ==
    \/ \E v \in HandleValues : DoRender(v, MaxCalls)
    \/ \E k \in 1..MaxCalls : DoRepeat(k, MaxCalls)

SpecHandle == Init /\ [][NextHandle]_vars

NextNest ==
    \/ \E kind \in Placement, f \in UserFactories :
            DoDefineAction(kind, f, MaxRenders)
    \/ \E v \in NestValues : DoRender(v, MaxRenders)

SpecNest == Init /\ [][NextNest]_vars

(***************************************************************************)
(* What the properties are stated in.  A pass is a record of heap.passes:  *)
(* old, new are #contents before and after it, oldKeys, newKeys the key()  *)
(* of the entry that produced each, oldKinds, newKinds their class (and    *)
(* Template), oldNodes, newNodes their nodes() at the time, sib0, sib1 the *)
(* children of the marker's parent before and after, muts the tree         *)
(* mutations of its updateContent calls and of its final loop.             *)
(***************************************************************************)
Passes == {heap.passes[i] : i \in DOMAIN heap.passes}
Acts   == {heap.acts[i] : i \in DOMAIN heap.acts}

RECURSIVE Flatten(_)
Flatten(ss) == IF ss = <<>> THEN <<>> ELSE Head(ss) \o Flatten(Tail(ss))

UpTo(s, x)  == SubSeq(s, 1, IndexOf(s, x))
After(s, x) == SubSeq(s, IndexOf(s, x) + 1, Len(s))
Restrict(s, S) == SelectSeq(s, LAMBDA x : x \in S)

\* the explicit keys among keys are pairwise distinct
DistinctKeys(keys) ==
    \A i, j \in DOMAIN keys : HasKey(keys[i]) /\ keys[i] = keys[j] => i = j

\* how many of the first n entries are unkeyed
UnkeyedBefore(keys, n) == Cardinality({i \in 1..n : ~HasKey(keys[i])})

Retained(P) == Range(P.old) \cap Range(P.new)
NodesOf(cs, nodes, S) == UNION {Range(nodes[i]) : i \in {j \in DOMAIN cs : cs[j] \in S}}

\* the nodes that followed the list before the pass
Followers(P) ==
    SelectSeq(After(P.sib0, P.marker), LAMBDA n : n \notin Range(Flatten(P.oldNodes)))

LastCall == calls[Len(calls)]

\* C1: in every pass whose previous and new explicit keys are pairwise
\* distinct, an entry with an explicit key that was the key of an entry of the
\* previous pass whose Content is of the same class (and Template) has that
\* very Content object, with the same first node and, for a text, the same
\* node
C1_KeyedEntryRetained ==
    \A P \in Passes :
        DistinctKeys(P.oldKeys) /\ DistinctKeys(P.newKeys) =>
            \A i \in DOMAIN P.new, j \in DOMAIN P.old :
                ( HasKey(P.newKeys[i]) /\ P.oldKeys[j] = P.newKeys[i]
                  /\ P.oldKinds[j] = P.newKinds[i] )
                => ( P.new[i] = P.old[j] /\ Head(P.newNodes[i]) = Head(P.oldNodes[j]) )

\* C2: after a pass whose explicit keys are pairwise distinct, the children of the marker's parent are those before the marker,
\* the marker, the nodes of the new entries in the order of the new
\* sequence, and what followed the list before
C2_NodesInNewOrder ==
    \A P \in Passes :
        DistinctKeys(P.newKeys) =>
            P.sib1 = UpTo(P.sib0, P.marker) \o Flatten(P.newNodes) \o Followers(P)

C2_Witness ==
    \E P \in Passes :
        /\ DistinctKeys(P.newKeys)
        /\ P.parent0 = Root
        /\ \E i, j \in DOMAIN P.new, a, b \in DOMAIN P.old :
              i < j /\ b < a /\ P.new[i] = P.old[a] /\ P.new[j] = P.old[b]
        /\ Range(P.new) \ Range(P.old) # {}

\* C3: an entry without a key that is the p-th unkeyed entry of its pass has
\* the Content of the p-th unkeyed entry of the previous pass when that is of
\* the same class (and Template)
C3_UnkeyedEntryRetained ==
    \A P \in Passes :
        \A i \in DOMAIN P.new, j \in DOMAIN P.old :
            ( ~HasKey(P.newKeys[i]) /\ ~HasKey(P.oldKeys[j])
              /\ UnkeyedBefore(P.newKeys, i) = UnkeyedBefore(P.oldKeys, j)
              /\ P.oldKinds[j] = P.newKinds[i] )
            => P.new[i] = P.old[j]

\* C4: a render of the value the call before rendered, neither throwing,
\* creates no node and no Content, mutates the tree nowhere and leaves every
\* node where it was
C4_SameValueTwice ==
    ( /\ Len(calls) >= 2
      /\ LastCall.v = calls[Len(calls) - 1].v
      /\ ~Failed(heap) /\ ~Failed(prev) )
    => ( /\ heap.log = <<>>
         /\ Len(heap.parent) = Len(prev.parent)
         /\ Len(heap.contents) = Len(prev.contents)
         /\ heap.mount[Root].content = prev.mount[Root].content
         /\ Subtree(heap, Root) = Subtree(prev, Root) )

\* the variable a slot of the template t renders
SlotValue(t, values, i) == values[Skeleton(t)[ElementWires(t)[i]].var + 1]

\* C5: a template action evaluated where the prior Content is an instance of
\* the same Template returns that instance; its nodes outside the slots'
\* contents are the same nodes in the same order, and a slot that held a text
\* and is given a string holds the same TextContent, its node showing the
\* string
C5_SameTemplatePatched ==
    \A r \in Acts :
        r.isHtml /\ r.priorTpl = r.tpl =>
            /\ r.result = r.prior
            /\ r.after.skeleton = r.before.skeleton
            /\ \A i \in DOMAIN r.before.cs :
                  r.before.kinds[i] = "text" /\ SlotValue(r.strings, r.values, i).t = "str"
                  => /\ r.after.cs[i] = r.before.cs[i]
                     /\ r.after.texts[i] = SlotValue(r.strings, r.values, i).a

C5_Witness ==
    \E r \in Acts :
        /\ r.isHtml /\ r.priorTpl = r.tpl
        /\ r.before.attached
        /\ r.before.skeleton # <<>>
        /\ \E i \in DOMAIN r.before.cs :
              r.before.kinds[i] = "text" /\ r.after.texts[i] # r.before.texts[i]

\* C6 as it is stated: a template action evaluated where the prior Content
\* is an instance of another Template returns an instance made by it and
\* leaves the prior one as it was; when the call returns, the nodes of the
\* prior instance, if they were in the tree, are out of it, and the new
\* instance has the parent the prior one had and, at a mount or in a slot, its
\* position
Replaced(r) ==
    /\ \A n \in Range(r.before.nodes) : ~Attached(heap, n)
    /\ Attached(heap, heap.contents[r.result].n1)
    /\ heap.parent[heap.contents[r.result].n1] = r.before.parent
    /\ r.place \in {"mount", "slot"} => Snapshot(heap, r.result).index = r.before.index

NothingMoved(P) ==
    \A k \in DOMAIN P.muts :
        /\ P.muts[k].n \notin NodesOf(P.old, P.oldNodes, Retained(P))
        /\ P.muts[k].n \notin NodesOf(P.new, P.newNodes, Retained(P))
        /\ P.muts[k].n \in
              NodesOf(P.new, P.newNodes, Range(P.new) \ Range(P.old))
              \cup NodesOf(P.old, P.oldNodes, Range(P.old) \ Range(P.new))

C8_MarkerStays ==
    \A P \in Passes :
        /\ P.parent1 = P.parent0
        /\ UpTo(P.sib1, P.marker) = UpTo(P.sib0, P.marker)
        /\ \A k \in (P.log0 + 1)..P.log1 : heap.log[k].n # P.marker
        /\ P.new = <<>> =>
              /\ heap.contents[P.arr].n1 = P.marker
              /\ P.sib1 = UpTo(P.sib0, P.marker) \o Followers(P)
              /\ \A j \in DOMAIN P.old : Range(P.oldNodes[j]) \cap Range(P.sib1) = {}

C8_Witness ==
    \E P \in Passes :
        /\ P.new = <<>> /\ Len(P.old) >= 2
        /\ P.parent0 # 0 /\ Attached(heap, P.parent0)
        /\ IndexOf(P.sib0, P.marker) > 1
        /\ Followers(P) # <<>>

\* C9: after a pass over entries by an array that had none, the nodes of all
\* the entries, in order, sit between the marker and the node that followed
\* the marker before
C9_InsertedAfterMarker ==
    \A P \in Passes :
        P.old = <<>> /\ P.new # <<>> =>
            P.sib1 = UpTo(P.sib0, P.marker) \o Flatten(P.newNodes) \o After(P.sib0, P.marker)

C9_Witness ==
    \E P \in Passes :
        /\ P.old = <<>> /\ P.new # <<>>
        /\ Attached(heap, P.parent0)
        /\ After(P.sib0, P.marker) # <<>>
        /\ Flatten(P.newNodes) # <<>>

\* C10: after a pass, no node of a previous Content that is not among the new
\* ones is a child of the marker's parent, and every node of one that is among
\* them is
C10_DroppedDetached ==
    \A P \in Passes :
        /\ NodesOf(P.old, P.oldNodes, Range(P.old) \ Range(P.new)) \cap Range(P.sib1) = {}
        /\ NodesOf(P.new, P.newNodes, Retained(P)) \subseteq Range(P.sib1)
        /\ \A j \in DOMAIN P.old :
              P.old[j] \in Range(P.new) => Head(P.oldNodes[j]) \in Range(P.sib1)

C10_Witness ==
    \E P \in Passes :
        /\ P.parent0 = Root
        /\ Range(P.old) \ Range(P.new) # {}
        /\ Retained(P) # {}
        /\ \E n \in NodesOf(P.old, P.oldNodes, Range(P.old) \ Range(P.new)) :
              heap.parent[n] # Root

\* C11: in a pass, the map key under which an entry with an explicit key is
\* looked up or recorded is never the map key under which an unkeyed entry is
\* looked up or recorded
C11_KeyNamespacesDisjoint ==
    \A P \in Passes :
        \A x, y \in Range(P.lookups) \cup Range(P.records) :
            HasKey(x.key) /\ ~HasKey(y.key) => x.mapKey # y.mapKey

\* the factories of the kind of the last call, and what each returns for its
\* value
LastFactories == heap.factories[LastCall.kind]
LastAnswer(i) == Factory(heap.factories, LastFactories[i], LastCall.v)
Accepting     == {i \in DOMAIN LastFactories : LastAnswer(i).res = "accept"}
Latest(S)     == CHOOSE i \in S : \A j \in S : j <= i

\* the positions from n down to i
Down(n, i) == [k \in 1..(n - i + 1) |-> n + 1 - k]

\* C12: toAction of a value that is no function, for which a factory of the
\* kind accepts, returns the action of the accepting factory registered last,
\* having called the factories of that kind from the last registered down to
\* it and no other
C12_LatestAcceptingFactoryWins ==
    (calls # <<>> /\ LastCall.op = "toAction" /\ ~Callable(LastCall.v)
        /\ Accepting # {}) =>
            /\ LastCall.out.res = "accept"
            /\ LastCall.out.action = LastAnswer(Latest(Accepting)).action
            /\ LastCall.out.consulted = Down(Len(LastFactories), Latest(Accepting))

\* C13: toAction of a function returns that function and calls no factory,
\* whatever the kind and the factories registered
C13_CallableVerbatim ==
    (calls # <<>> /\ LastCall.op = "toAction" /\ Callable(LastCall.v)) =>
        /\ LastCall.out.res = "accept"
        /\ LastCall.out.action = LastCall.v
        /\ LastCall.out.consulted = <<>>

C13_Witness ==
    /\ Len(calls) > 1
    /\ LastCall.op = "toAction" /\ Callable(LastCall.v)
    /\ LastCall.kind = "attribute"
    /\ calls[1].op = "defineAction" /\ calls[1].kind = "attribute"
    /\ calls[1].f = "anyAction"
    /\ LastCall.out.action = LastCall.v

\* C15: toAction(Attribute, v) of null, a number or a string returns an
\* action that yields a StringContent of '', the number's decimal string, or
\* the string
C15_AttributeStrings ==
    (calls # <<>> /\ LastCall.op = "toAction" /\ LastCall.kind = "attribute"
        /\ LastCall.v.t \in {"null", "num", "str"}) =>
            /\ LastCall.out.res = "accept"
            /\ LastCall.out.action =
                  StringActionOf(CASE LastCall.v.t = "null" -> ""
                                   [] LastCall.v.t = "num"  -> NumberString(LastCall.v.a)
                                   [] LastCall.v.t = "str"  -> LastCall.v.a)

\* the steps of the render loop in the last call, and the positions of those
\* of a kind
Trace      == heap.trace
Steps(ev)  == {i \in DOMAIN Trace : Trace[i].ev = ev}

\* the render call of the place p returned: it was entered at i, and it
\* returned normally at some later step
Exits(i)   == {j \in Steps("exit") : j > i /\ Trace[j].c = Trace[i].c}

\* the loop steps taken while place() was p
StepsAt(p) ==
    SelectSeq(Trace, LAMBDA e : e.ev \in {"invoke", "return", "update"} /\ e.place = p)

\* C14: a render of a value that is no function and that every Element
\* factory declines throws the conversion error naming the value and the
\* kind, out of the call, and no update callback is invoked
C14_ConversionFailure ==
    (calls # <<>> /\ LastCall.op = "render" /\ ~Callable(LastCall.v)
        /\ \A i \in DOMAIN heap.factories.element :
               Factory(heap.factories, heap.factories.element[i], LastCall.v).res
                   = "decline") =>
            /\ heap.err = ConversionError(LastCall.v, "element")
            /\ Steps("update") = {}

\* C16: a render at the mount of null, undefined, a number, a string or an
\* array succeeds; null and undefined give a text of '', a number a text of
\* its decimal string, a string a text of it, an array an ArrayContent; and a
\* text where the prior Content is a text is that Content, with its node
C16_ElementBuiltins ==
    (calls # <<>> /\ LastCall.op = "render"
        /\ LastCall.v \in {Null, Undefined, Num("7"), Num("1.50"), Str("a"), Str("b"),
                           Arr(<<Str("a")>>)}
        /\ heap.factories = BuiltinFactories /\ prev.cur = 0) =>
            LET v == LastCall.v
                c == heap.mount[Root].content
            IN /\ ~Failed(heap)
               /\ c # 0
               /\ IF v.t = "arr" THEN heap.contents[c].k = "array"
                  ELSE /\ heap.contents[c].k = "text"
                       /\ heap.nval[heap.contents[c].n1] =
                             (CASE Nullish(v)  -> ""
                                [] v.t = "num" -> NumberString(v.a)
                                [] v.t = "str" -> v.a)
                       /\ (prev.mount[Root].content # 0
                             /\ prev.contents[prev.mount[Root].content].k = "text") =>
                               c = prev.mount[Root].content

\* C17: a render call of a function of the caller, at the placement kind, of
\* a value that is no function and that toAction(kind, value) accepts,
\* returns normally
C17_ResolvedAtItsKind ==
    \A i \in Steps("enter") :
        LET pl == heap.places[Trace[i].c]
        IN (pl.type = "user" /\ ~Callable(Trace[i].v)
              /\ ToAction(heap.factories, pl.placement, Trace[i].v).res = "accept")
           => Exits(i) # {}

\* the loop steps of a render call of the value v are those of a chain: each
\* action invoked is toAction of the value before it, each returns, all but
\* the last return a value that is no Content, and after the last, which
\* returns a Content, comes the one update, with that Content
IsChain(ss, v) ==
    /\ Len(ss) >= 3 /\ Len(ss) % 2 = 1
    /\ \A k \in DOMAIN ss :
          ss[k].ev = (IF k = Len(ss) THEN "update"
                      ELSE IF k % 2 = 1 THEN "invoke" ELSE "return")
    /\ ss[1].v = ToAction(heap.factories, "element", v).action
    /\ \A k \in DOMAIN ss :
          (k % 2 = 0 /\ k < Len(ss) - 1) =>
              /\ ss[k].c = 0
              /\ ss[k + 1].v = ToAction(heap.factories, "element", ss[k].v).action
    /\ ss[Len(ss) - 1].c # 0
    /\ ss[Len(ss)].c = ss[Len(ss) - 1].c

\* C18: a render call that returns has invoked each action of its chain once
\* and in order, and then the update callback of its place once, with the
\* Content the last action returned
C18_ChainThenUpdate ==
    \A i \in Steps("enter") :
        Exits(i) # {} => IsChain(StepsAt(Trace[i].c), Trace[i].v)

\* every render call of the last call returned normally
AllReturned == \A i \in Steps("enter") : Exits(i) # {}

\* C19: when every render call returns normally, a function that calls
\* render reads the same place() and action() after the call as before it,
\* the place being the place of the render call that invoked the function;
\* and as a render call returns place() and action() are what they were as it
\* was entered
C19_StrictlyNested ==
    AllReturned =>
        /\ \A i \in Steps("before") \cup Steps("after") : Trace[i].place = Trace[i].c
        /\ \A j \in Steps("after") :
              \E i \in Steps("before") :
                  /\ i < j /\ Trace[i].c = Trace[j].c /\ Trace[i].v = Trace[j].v
                  /\ Trace[i].act = Trace[j].act
        /\ \A i \in Steps("enter") :
              \A j \in Exits(i) :
                  Trace[j].place = Trace[i].place /\ Trace[j].act = Trace[i].act
        /\ heap.cur = prev.cur /\ heap.act = prev.act

C19_Witness ==
    /\ AllReturned /\ ~Failed(heap)
    /\ \E i, j \in Steps("enter") :
          /\ i < j
          /\ heap.places[Trace[i].c].type = "user"
          /\ heap.places[Trace[j].c].type = "user"
          /\ \E k \in Exits(i) : j < k
    /\ Cardinality(Steps("after")) >= 2

\* C20: after a render call that failed, place() and action() are what they
\* were before the call
C20_FailureRestoresContext ==
    (calls # <<>> /\ LastCall.op = "render" /\ Failed(heap)) =>
        heap.cur = prev.cur /\ heap.act = prev.act

\* the handles kept in the call before the last one, as positions in hooks,
\* and the Contents the render call of the place p of that call handed to
\* its update callback
KeptBefore ==
    {k \in DOMAIN prev.hooks :
        \E i \in DOMAIN prev.trace :
            prev.trace[i].ev = "invoke" /\ prev.trace[i].act = prev.hooks[k].act}
GivenBefore(p) ==
    {prev.trace[i].c : i \in {j \in DOMAIN prev.trace :
                                 prev.trace[j].ev = "update" /\ prev.trace[j].place = p}}

\* the Content c, in the tree before the last call, has a node out of it now
Gone(c) ==
    \E n \in Range(Nodes(prev, c)) \ {Thrown} : Attached(prev, n) /\ ~Attached(heap, n)

\* C21: a hook registered through onUndo while an action was evaluated in a
\* call that returned has been invoked once when the next call has detached
\* the Content that action's render call gave, and not at all when it has
\* left it in place
C21_UndoHookOnce ==
    (Len(calls) >= 2 /\ ~Failed(prev) /\ ~Failed(heap)) =>
        \A k \in KeptBefore : \A c \in GivenBefore(prev.hooks[k].place) :
            heap.hooks[k].fired = (IF Gone(c) THEN 1 ELSE 0)

\* C22: repeat() of a handle kept in the render just before, which
\* returned, returns, leaves the nodes under the root and their order as they
\* were, the Content of the mount the same object, and the Contents every
\* array and every template instance records the same
C22_RepeatChangesNothing ==
    ( /\ Len(calls) >= 2 /\ LastCall.op = "repeat"
      /\ calls[Len(calls) - 1].op = "render" /\ ~Failed(prev)
      /\ \E k \in KeptBefore : ToString(k) = LastCall.kind )
    => ( /\ ~Failed(heap)
         /\ Subtree(heap, Root) = Subtree(prev, Root)
         /\ heap.mount[Root].content = prev.mount[Root].content
         /\ \A c \in DOMAIN prev.contents : heap.contents[c].cs = prev.contents[c].cs )

\* the evaluations of template actions so far
Evals == {heap.evals[i] : i \in DOMAIN heap.evals}

\* C23: composeTemplate has run at most once for each document and template
\* strings object; all evaluations of template actions of one template
\* strings object at places of one document had the same Template in hand, and
\* evaluations of two template strings objects had two Templates, of one text
\* or not
C23_OneTemplatePerPair ==
    /\ \A i, j \in DOMAIN heap.templates : heap.templates[i] = heap.templates[j] => i = j
    /\ \A x, y \in Evals :
          /\ (x.doc = y.doc /\ x.strings = y.strings) => x.tpl = y.tpl
          /\ x.strings # y.strings => x.tpl # y.tpl

\* the text an attribute wire makes of the values, from the k-th of its
\* literals on
RECURSIVE WireText(_, _, _)
WireText(sp, values, k) ==
    IF k > Len(sp.tail) THEN ""
    ELSE ValueString(values[sp.first + k]) \o sp.tail[k] \o WireText(sp, values, k + 1)

\* the attribute wires of the template strings t
WiresOf(t) == [j \in DOMAIN AttributeWires(t) |-> Skeleton(t)[AttributeWires(t)[j]]]

\* C24: when a template action has constructed or patched an instance, each
\* wired attribute of the instance is its first literal followed by each of
\* its values, as strings, and the literal after it, the values being those of
\* the action, and the attribute was written once while the action evaluated
C24_AttributesFromLatestValues ==
    \A r \in Acts :
        \A j \in DOMAIN r.made.es :
            /\ r.made.attrs[j] =
                  WiresOf(r.strings)[j].head \o WireText(WiresOf(r.strings)[j], r.values, 1)
            /\ Cardinality({k \in DOMAIN r.writes : r.writes[k].n = r.made.es[j]}) = 1
            /\ \A k \in DOMAIN r.writes :
                  r.writes[k].n = r.made.es[j] => r.writes[k].val = r.made.attrs[j]

C24_Witness ==
    \E r \in Acts :
        /\ r.isHtml /\ r.priorTpl = r.tpl /\ r.result = r.prior
        /\ r.made.es # <<>>
        /\ Len(WiresOf(r.strings)[1].tail) = 2
        /\ r.before.attrs # r.after.attrs
        /\ r.before.attrs[1] = "xayb" \o "z"
        /\ r.values[2].t = "num"

\* a Content of the class (and Template) kind is what the action of the
\* value v returns where it is the prior Content
Compatible(kind, v) ==
    CASE kind[1] = "text"  -> v.t \in {"str", "num"}
      [] kind[1] = "array" -> v.t = "arr"
      [] kind[1] = "html"  -> v.t = "html" /\ v.a = StringsOf(heap, kind[2])
      [] OTHER             -> FALSE

\* C25: when a template action has patched an instance, each slot whose
\* Content before was of the class (and Template) of its new value holds
\* that Content, with the first node it had (and, for a text, its only one),
\* whatever became of the other slots
C25_SlotsPatchedIndependently ==
    \A r \in Acts :
        (r.isHtml /\ r.priorTpl = r.tpl) =>
            \A i \in DOMAIN r.before.cs :
                Compatible(r.before.slotKinds[i], SlotValue(r.strings, r.values, i)) =>
                    /\ r.after.cs[i] = r.before.cs[i]
                    /\ Head(r.after.slotNodes[i]) = Head(r.before.slotNodes[i])
                    /\ r.before.slotKinds[i][1] = "text" =>
                          r.after.slotNodes[i] = r.before.slotNodes[i]

C25_Witness ==
    \E r \in Acts :
        /\ r.isHtml /\ r.priorTpl = r.tpl /\ r.before.attached
        /\ \E i, j \in DOMAIN r.before.cs :
              /\ Compatible(r.before.slotKinds[i], SlotValue(r.strings, r.values, i))
              /\ r.after.cs[i] = r.before.cs[i]
              /\ i > j
              /\ r.after.cs[j] # r.before.cs[j]
              /\ r.after.slotKinds[j][1] = "html"

\* the Contents reachable from the Content c along #contents and the cells
\* of slot markers, c first, each as often as it is recorded
RECURSIVE Reachable(_, _)
RECURSIVE ReachableAll(_, _)
Reachable(h, c) == <<c>> \o ReachableAll(h, h.contents[c].cs)
ReachableAll(h, cs) ==
    IF cs = <<>> THEN <<>> ELSE Reachable(h, Head(cs)) \o ReachableAll(h, Tail(cs))

\* the nodes a Content answers for itself: its text node, its array marker,
\* the nodes of a template instance that are no part of a slot's Content
Own(h, c) ==
    CASE h.contents[c].k \in {"text", "array"} -> <<h.contents[c].n1>>
      [] h.contents[c].k = "html"              -> SkeletonNodes(h, c)
      [] OTHER                                 -> <<>>
OwnOfAll(h, cs) == Flatten([i \in DOMAIN cs |-> Own(h, cs[i])])

\* key() of the entry of an array that the value v is
KeyOf(v) == IF v.t = "keyed" THEN v.a ELSE NoKey

\* no array in the value v has an explicit key twice
RECURSIVE KeysDistinct(_)
KeysDistinct(v) ==
    /\ v.t = "arr" => DistinctKeys([i \in DOMAIN v.xs |-> KeyOf(v.xs[i])])
    /\ \A i \in DOMAIN v.xs : KeysDistinct(v.xs[i])

\* the children of the root are the nodes of the Content of the mount, and
\* each node under the root is of one Content reachable from the mount, once
OwnedOnce ==
    /\ Thrown \notin Range(Nodes(heap, heap.mount[Root].content))
    /\ heap.kids[Root] = Nodes(heap, heap.mount[Root].content)
    /\ NoDup(OwnOfAll(heap, Reachable(heap, heap.mount[Root].content)))
    /\ Range(OwnOfAll(heap, Reachable(heap, heap.mount[Root].content)))
          = Range(Subtree(heap, Root)) \ {Root}

\* C26 (as stated): after a render that returns, the children of the root
\* are the nodes of the mount's Content in order, and every node under the
\* root is of exactly one Content reachable from the mount
C26_NodesOwnedOnce ==
    (calls # <<>> /\ ~Failed(heap)) => OwnedOnce

\* C26 (amended): the same after renders of values none of whose arrays has an
\* explicit key twice.  (Two entries of a pass under one key retain one
\* Content, which the array then records twice.)
C26_DistinctKeysOwnedOnce ==
    (calls # <<>> /\ ~Failed(heap) /\ \A i \in DOMAIN calls : KeysDistinct(calls[i].v))
        => OwnedOnce

\* the template instances made so far, in the tree or out of it
Instances == {c \in DOMAIN heap.contents : heap.contents[c].k = "html"}

\* C27: of every template instance, the end marker is reached from the begin
\* marker along nextSibling, so that nodes() returns, and the nodes of the
\* Contents of its slots are nodes of the range or under one
C27_MarkersBracketSlots ==
    \A c \in Instances :
        /\ Thrown \notin Range(Nodes(heap, c))
        /\ Head(Nodes(heap, c)) = heap.contents[c].n1
        /\ Nodes(heap, c)[Len(Nodes(heap, c))] = heap.contents[c].n2
        /\ Range(NodesOfAll(heap, heap.contents[c].cs)) \subseteq Range(InstanceNodes(heap, c))

C27_Witness ==
    \E r \in Acts :
        /\ r.isHtml /\ r.priorTpl = r.tpl /\ r.before.attached
        /\ r.before.cs # <<>>
        /\ r.after.cs[1] # r.before.cs[1]
        /\ r.before.slotNodes[1] # <<>>
        /\ Len(r.after.slotNodes[1]) > 1
        /\ heap.parent[heap.contents[r.result].ms[1]] = heap.parent[heap.contents[r.result].n1]
        /\ Range(r.after.slotNodes[1]) \subseteq Range(Nodes(heap, r.result))

\* the string w occurs in the string s
Occurs(w, s) == \E i \in 1..(Len(s) + 1) : StartsWith(s, i, w)

\* C28: when a template has been composed, the name of no variable occurs
\* in any of its template strings, and the slots found in the text of
\* templateString are one for each variable, in order from the first, with
\* the template strings as the texts around them
C28_SlotNamesFoundOnce ==
    (calls # <<>> /\ LastCall.op = "composeTemplate") =>
        /\ \A i \in DOMAIN LastCall.info.names, k \in DOMAIN LastCall.strings :
              ~Occurs(LastCall.info.names[i], LastCall.strings[k])
        /\ LastCall.slots.err = ""
        /\ IF Len(LastCall.strings) = 1
           THEN LastCall.slots.firstSlot = -1
           ELSE /\ LastCall.slots.firstSlot = 0
                /\ LastCall.slots.strings = LastCall.strings

\* the nodes ns are children in a row in ks, and what follows them is the
\* node next (0: nothing follows them)
RightBefore(ns, ks, next) ==
    \E i \in 1..(Len(ks) - Len(ns) + 1) :
        /\ SubSeq(ks, i, i + Len(ns) - 1) = ns
        /\ IF next = 0 THEN i + Len(ns) - 1 = Len(ks)
           ELSE i + Len(ns) <= Len(ks) /\ ks[i + Len(ns)] = next

\* the calls of updateContent of every pass so far
EntrySteps == UNION {Range(heap.frames[f].steps) : f \in DOMAIN heap.frames}

\* a content found at an index above the mark
InPlace(s) == s.found /\ s.matchIndex > s.mark0

\* C29: in every pass, a content found above the mark is not moved, the mark
\* becomes its index and the cursor the sibling after its last node; any
\* other content is put right before the cursor, and the mark and the cursor
\* stay as they were; the mark of a pass starts at -1 and never goes down
C29_HighWaterMark ==
    /\ \A s \in EntrySteps :
          /\ s.err = ""
          /\ IF InPlace(s)
             THEN /\ s.muts = <<>>
                  /\ s.kids1 = s.kids0
                  /\ s.mark1 = s.matchIndex
                  /\ s.nodes1 # <<>>
                  /\ RightBefore(s.nodes1, s.kids1, s.next1)
             ELSE /\ s.mark1 = s.mark0
                  /\ s.next1 = s.next0
                  /\ s.parent # 0
                  /\ RightBefore(s.nodes1, s.kids1, s.next0)
    /\ \A f \in DOMAIN heap.frames : \A k \in DOMAIN heap.frames[f].steps :
          /\ heap.frames[f].steps[k].mark0 =
                IF k = 1 THEN -1 ELSE heap.frames[f].steps[k - 1].mark1
          /\ heap.frames[f].steps[k].mark0 <= heap.frames[f].steps[k].mark1

\* a pass has left a content in place, moved one it found, and put in one
\* it did not find
C29_Witness ==
    \E f \in DOMAIN heap.frames : \E a, b, c \in Range(heap.frames[f].steps) :
        /\ InPlace(a) /\ a.matchIndex > 0
        /\ b.found /\ ~InPlace(b) /\ b.muts # <<>>
        /\ ~c.found /\ c.muts # <<>>

\* the nodes ns are children in a row in ks, right after the node marker
RightAfter(ns, ks, marker) ==
    /\ marker \in Range(ks)
    /\ IndexOf(ks, marker) + Len(ns) <= Len(ks)
    /\ SubSeq(ks, IndexOf(ks, marker) + 1, IndexOf(ks, marker) + Len(ns)) = ns

\* where in the mutations ms a node of ns is first put somewhere, and where a
\* node n is last taken from somewhere
FirstInsert(ms, ns) ==
    Min({i \in DOMAIN ms : ms[i].op = "insert" /\ ms[i].n \in Range(ns)} \cup {Len(ms) + 1})
LastRemove(ms, n) ==
    Max({i \in DOMAIN ms : ms[i].op = "remove" /\ ms[i].n = n} \cup {0})

\* C30: a slot updated with the Content it has causes no tree mutation; one
\* updated with another Content has the nodes of the old one taken out of
\* the parent of the marker before a node of the new one is put anywhere,
\* then holds the new Content, whose nodes are right after the marker; the
\* marker is not removed, inserted or given another parent
C30_SlotUpdate ==
    \A k \in DOMAIN heap.updates :
        LET u == heap.updates[k]
        IN IF u.new = u.old
           THEN u.muts = <<>> /\ u.cell = u.old /\ u.kids1 = u.kids0
           ELSE /\ u.err = ""
                /\ u.cell = u.new
                /\ \A n \in Range(u.oldNodes) :
                      /\ n \notin Range(u.kids1)
                      /\ LastRemove(u.muts, n) > 0
                      /\ LastRemove(u.muts, n) < FirstInsert(u.muts, u.newNodes)
                /\ u.newNodes # <<>>
                /\ RightAfter(u.newNodes, u.kids1, u.marker)
                /\ u.parent1 = u.parent0
                /\ \A j \in DOMAIN u.muts : u.muts[j].n # u.marker

\* a slot in the tree of the target that held nodes has been updated with
\* another Content, and a slot has been updated with the Content it had
C30_Witness ==
    \E j, k \in DOMAIN heap.updates :
        /\ heap.updates[j].new # heap.updates[j].old
        /\ heap.updates[j].oldNodes # <<>>
        /\ Len(heap.updates[j].newNodes) > 1
        /\ Attached(heap, heap.updates[j].marker)
        /\ heap.updates[k].new = heap.updates[k].old
        /\ heap.updates[k].oldNodes # <<>>

\* the last call is a clear() of the root made outside any render, after
\* render calls that all returned
ClearedOutside ==
    /\ calls # <<>> /\ LastCall.op = "clear"
    /\ prev.cur = 0 /\ prev.mount[Root].place # 0

\* C31: a clear() of the root made outside any render, after renders that
\* returned, throws nothing, leaves no node of the mounted Content under the
\* root and deletes the Content and the Place of the element; the render
\* that follows such a clear() mounts a Content made in that render
C31_ClearForgetsMount ==
    /\ ClearedOutside =>
          /\ heap.err = ""
          /\ heap.mount[Root] = [content |-> 0, place |-> 0]
          /\ \A n \in Range(Nodes(prev, prev.mount[Root].content)) : heap.parent[n] # Root
    /\ ( Len(calls) >= 3 /\ LastCall.op = "render" /\ heap.err = "" /\ prev.cur = 0
         /\ calls[Len(calls) - 1].op = "clear" /\ calls[Len(calls) - 2].op = "render" )
          => heap.mount[Root].content > Len(prev.contents)

\* the calls of updateContent that put the nodes of their content in before
\* the cursor
Inserts == {s \in EntrySteps : ~InPlace(s)}

\* C32: whenever updateContent puts the nodes of a content in before the
\* cursor, the list has a parent, and the cursor is null or a child of that
\* parent that is none of the nodes put in; insertBefore does not fail
C32_CursorIsSibling ==
    \A s \in Inserts :
        /\ s.parent # 0
        /\ s.err # "NotFoundError"
        /\ \/ s.next0 = 0
           \/ /\ s.next0 \in Range(s.kids0)
              /\ s.next0 \notin Range(s.nodes0)
              /\ s.next0 \in Range(s.kids1)

\* in one pass a content that was found and a content that was not have
\* been put in before a cursor that is a node, the first of them taken from
\* the parent of the list
C32_Witness ==
    \E f \in DOMAIN heap.frames : \E a, b \in Range(heap.frames[f].steps) :
        /\ a.found /\ ~InPlace(a) /\ a.next0 # 0
        /\ Range(a.nodes0) \subseteq Range(a.kids0)
        /\ ~b.found /\ b.next0 # 0 /\ b.muts # <<>>

\* the map key under which priorContent looks up the i-th entry of a pass
\* whose entries have the keys keys
LookupKey(keys, i) ==
    IF HasKey(keys[i]) THEN "key-" \o KeyString(keys[i])
    ELSE "index-" \o ToString(UnkeyedBefore(keys, i) - 1)

\* C33: after a pass whose explicit keys are pairwise distinct,
\* #contentsByKey has as many entries as #contents, they hold the same
\* Contents, and the Content of every entry is what #contentsByKey has under
\* the map key of an entry of that place and key
C33_KeyMapMatchesContents ==
    \A P \in Passes :
        DistinctKeys(P.newKeys) =>
            /\ Len(P.newByKey) = Len(P.new)
            /\ {P.newByKey[i][2] : i \in DOMAIN P.newByKey} = Range(P.new)
            /\ \A i \in DOMAIN P.new :
                  Lookup(P.newByKey, LookupKey(P.newKeys, i)) = P.new[i]

\* the list mounted at the root, when a list is
MountedList ==
    IF heap.mount[Root].content # 0 /\ heap.contents[heap.mount[Root].content].k = "array"
    THEN {heap.mount[Root].content} ELSE {}

\* a pass of the last call threw while rendering an entry, after it had
\* rendered one
FailedInPass ==
    /\ calls # <<>> /\ Failed(heap)
    /\ \E f \in DOMAIN heap.frames :
          f > Len(prev.frames) /\ heap.frames[f].steps # <<>>

\* C34: whatever passes have failed, every child of the root of a mounted
\* list is a node of the list, its marker or a node of a Content of
\* #contents; and after a render that returned the children of the root are
\* the nodes of the list
C34_FailedPassLeavesNoOrphan ==
    \A c \in MountedList :
        /\ Range(heap.kids[Root]) \subseteq Range(Nodes(heap, c))
        /\ ~Failed(heap) => heap.kids[Root] = Nodes(heap, c)

\* the key a list entry of the value v has: that of the keyed wrapper it is,
\* or that a function it is returns; and the value under them
RECURSIVE EntryKey(_)
EntryKey(v) ==
    IF v.t = "keyed" THEN v.a
    ELSE IF v.t = "fn" THEN EntryKey(v.xs[1])
    ELSE NoKey
RECURSIVE Unwrapped(_)
Unwrapped(v) == IF v.t \in {"keyed", "fn"} THEN Unwrapped(v.xs[1]) ELSE v

\* in the pass P over the values xs, key() is for every entry the key of its
\* own value, whenever priorContent is read and as updateContent is called,
\* and an entry without one is looked up as the unkeyed entry it is
KeysScoped(P, xs) ==
    /\ Len(P.newKeys) = Len(xs) /\ Len(P.records) = Len(xs)
    /\ \A i \in DOMAIN xs :
          /\ P.newKeys[i] = EntryKey(xs[i])
          /\ P.records[i].key = EntryKey(xs[i])
          /\ \E k \in DOMAIN P.lookups :
                /\ P.lookups[k].key = EntryKey(xs[i])
                /\ P.lookups[k].mapKey = LookupKey(P.newKeys, i)
    /\ \A k \in DOMAIN P.lookups : \E i \in DOMAIN xs :
          P.lookups[k].key = EntryKey(xs[i])

\* the passes of the list mounted at the root
MountPasses == {P \in Passes : P.arr \in MountedList}

\* C35: in every pass of a render that returned, key() is for each entry the
\* key of the keyed wrapper evaluated for that entry in that pass and
\* undefined when there was none, whatever keys the entries before it, the
\* entries of the pass before and the values rendered inside it have; the
\* same for the entries of a list that is an entry
C35_KeyedScopedToEntry ==
    (calls # <<>> /\ LastCall.op = "render" /\ ~Failed(heap)) =>
        \A P \in MountPasses :
            /\ KeysScoped(P, LastCall.v.xs)
            /\ \A i \in DOMAIN P.new :
                  Unwrapped(LastCall.v.xs[i]).t = "arr" =>
                      \E Q \in Passes :
                          Q.arr = P.new[i] /\ KeysScoped(Q, Unwrapped(LastCall.v.xs[i]).xs)

\* a pass has an unkeyed entry after a keyed one, an unkeyed entry where the
\* pass before had a keyed one, and an entry that rendered a keyed value
\* inside it
C35_Witness ==
    /\ Len(calls) >= 2 /\ ~Failed(heap) /\ ~Failed(prev)
    /\ \E P \in MountPasses :
          /\ P.old # <<>>
          /\ \E i \in DOMAIN P.newKeys \cap DOMAIN P.oldKeys :
                HasKey(P.oldKeys[i]) /\ ~HasKey(P.newKeys[i])
          /\ \E i \in DOMAIN P.newKeys :
                /\ i > 1 /\ ~HasKey(P.newKeys[i])
                /\ Unwrapped(LastCall.v.xs[i - 1]).t \in {"arr", "html"}
                /\ \E k \in DOMAIN heap.places :
                      k > Len(prev.places) /\ HasKey(heap.places[k].key)

====
